---------------------------- MODULE Spec2Model ----------------------------
(***************************************************************************)
(* Model of the tax computation engines of the Nigerian tax calculator:    *)
(*   src/utils/taxCalculations.ts          (personal income tax)           *)
(*   src/utils/businessTaxCalculations.ts  (company income tax)            *)
(* Each behaviour is one call of an engine function: Init draws the       *)
(* function and its arguments, the action applies the function.           *)
(*                                                                         *)
(* MONEY.  The source computes in JavaScript numbers.  The model computes  *)
(* in integers, on two grids:                                              *)
(*   - amounts that go INTO the tax formulas (gross income, relief and     *)
(*     deduction amounts, fixed assets, total reliefs, taxable income)     *)
(*     are counted in units of NairaPerUnit = 10,000 naira;                *)
(*   - amounts that come OUT of a multiplication by a percentage rate      *)
(*     (tax per bracket, CIT, levy, minimum tax, total tax, net income)    *)
(*     are counted in hundredths of a unit (100 naira), so that            *)
(*     amount * rate is exact for every whole percentage rate.             *)
(* Fractions of the source are written as whole percentages: 0.30 is 30.   *)
(* Every threshold of the source is a whole number of units, and all       *)
(* values stay below 2^31, the largest being the net income of a company   *)
(* with a turnover of 60,000,000,000 naira (6 * 10^8 hundredths).          *)
(***************************************************************************)
EXTENDS Integers, Sequences, FiniteSets, TLC

VARIABLES
    callee,         \* the engine function the call invokes
    grossIncome,    \* argument: the annual gross income, in units
    reliefs,        \* argument: the reliefs record (TaxReliefs / BusinessTaxReliefs)
    companySize,    \* argument: 'small' | 'medium' | 'large'      (business only)
    businessType,   \* argument: 'general' | 'startup' | 'agricultural' (business only)
    fixedAssets,    \* the optional last argument: <<>> when omitted, <<a>> when given
    pc,             \* "call" before the function has run, "returned" after
    result,         \* the breakdown the function returned (NoResult before)
    \* TaxHistoryProvider (src/contexts/TaxHistoryContext.tsx)
    data,           \* the `data` state of the current render: <<>> is null, <<list>> a list
    pendingData,    \* the value last passed to setData, rendered by the next render
    isLoading,      \* the `isLoading` state
    refreshing,     \* the `refreshing` state
    cache,          \* AsyncStorage item 'tax_history_cache': <<>> when absent, <<list>>
    inflight,       \* the storage requests issued and not completed, oldest first
    now,            \* Date.now()
    log,            \* history of the provider calls made and of the failures met
    \* SecurityProvider (src/contexts/SecurityContext.tsx)
    isLocked,           \* the `isLocked` state
    hasPassword,        \* the `hasPassword` state
    isBiometricEnabled, \* the `isBiometricEnabled` state
    lockTimeout,        \* the `lockTimeout` state, in ticks of the clock
    storage,            \* SecureStore and AsyncStorage items by key: <<>> absent, <<text>>
    appState,           \* the ref `appState.current`
    osState,            \* the state the operating system has put the app in
    tasks,              \* position and locals of the handlers suspended at an await
    \* AuthProvider (src/contexts/AuthContext.tsx) and its backend (src/convex/users.ts)
    user,                 \* the `user` state: <<>> is null, <<u>> a User
    authIsLoading,        \* the `isLoading` state of AuthProvider
    isBiometricAvailable, \* the `isBiometricAvailable` state
    secureStore,          \* SecureStore items by STORAGE_KEYS name: <<>> absent, <<value>>
    users,                \* the backend table "users", by email
    lastCall,             \* the AuthProvider handler called last and whether it succeeded
    lastLogout            \* <<>>, or <<f>> once a logout completed and no login since:
                          \* f is the stored biometric flag that logout started with

engineVars ==
    <<callee, grossIncome, reliefs, companySize, businessType, fixedAssets, pc, result>>

historyVars == <<data, pendingData, isLoading, refreshing, cache, inflight, now, log>>

\* the state of the providers, which the engines neither read nor write
securityVars ==
    <<isLocked, hasPassword, isBiometricEnabled, lockTimeout, storage, appState, osState, tasks>>

authVars ==
    <<user, authIsLoading, isBiometricAvailable, secureStore, users, lastCall, lastLogout>>

appVars == <<historyVars, securityVars, authVars>>

\* what the handlers of one provider leave alone
notHistoryVars == <<engineVars, securityVars, authVars>>

notSecurityVars ==
    <<engineVars, data, pendingData, isLoading, refreshing, cache, inflight, log, authVars>>

notAuthVars == <<engineVars, historyVars, securityVars>>

vars == <<engineVars, appVars>>

-----------------------------------------------------------------------------
(* Helpers standing for JavaScript built-ins *)

Max(a, b) == IF a >= b THEN a ELSE b

Min(a, b) == IF a <= b THEN a ELSE b

\* (x * p%) for an amount x whose p% is a whole number of units
PercentOf(x, p) == (x * p) \div 100

\* `record.field || 0` for an optional numeric field
NumOrZero(r, f) == IF f \in DOMAIN r THEN r[f] ELSE 0

\* `record.field || []` for an optional list field
\* mutant of ListOrEmpty: only the deductible items are kept
ListOrEmpty_DeductibleOnly(r, f) ==
    LET deductible(item) == ~ item.isTaxable
    IN  IF f \in DOMAIN r THEN SelectSeq(r[f], deductible) ELSE <<>>

ListOrEmpty(r, f) == IF f \in DOMAIN r THEN r[f] ELSE <<>>

\* a defaulted trailing parameter: `param: number = d`
ArgOrDefault(a, d) == IF a = <<>> THEN d ELSE a[1]

RECURSIVE SumSeq(_)
SumSeq(s) == IF s = <<>> THEN 0 ELSE Head(s) + SumSeq(Tail(s))

-----------------------------------------------------------------------------
(* Constants of src/utils/taxCalculations.ts *)

\* naira per unit of the model's input grid: 10,000
NairaPerUnit == 100 * 100

\* mutant of TAX_BRACKETS_2026: the second bracket takes more than the whole slice
TAX_BRACKETS_2026_Confiscatory ==
    << [min |-> 0 \div NairaPerUnit,        max |-> 800000 \div NairaPerUnit,   rate |-> 0],
       [min |-> 800000 \div NairaPerUnit,   max |-> 3000000 \div NairaPerUnit,  rate |-> 100 + 15],
       [min |-> 3000000 \div NairaPerUnit,  max |-> 12000000 \div NairaPerUnit, rate |-> 18],
       [min |-> 12000000 \div NairaPerUnit, max |-> 25000000 \div NairaPerUnit, rate |-> 21],
       [min |-> 25000000 \div NairaPerUnit, max |-> 50000000 \div NairaPerUnit, rate |-> 23],
       [min |-> 50000000 \div NairaPerUnit, rate |-> 25] >>

\* variant: the second bracket starts 100,000 above the end of the first
TAX_BRACKETS_2026_Gap ==
    << [min |-> 0 \div NairaPerUnit,        max |-> 800000 \div NairaPerUnit,   rate |-> 0],
       [min |-> 900000 \div NairaPerUnit,   max |-> 3000000 \div NairaPerUnit,  rate |-> 15],
       [min |-> 3000000 \div NairaPerUnit,  max |-> 12000000 \div NairaPerUnit, rate |-> 18],
       [min |-> 12000000 \div NairaPerUnit, max |-> 25000000 \div NairaPerUnit, rate |-> 21],
       [min |-> 25000000 \div NairaPerUnit, max |-> 50000000 \div NairaPerUnit, rate |-> 23],
       [min |-> 50000000 \div NairaPerUnit, rate |-> 25] >>

TAX_BRACKETS_2026 ==
    << [min |-> 0 \div NairaPerUnit,        max |-> 800000 \div NairaPerUnit,   rate |-> 0],
       [min |-> 800000 \div NairaPerUnit,   max |-> 3000000 \div NairaPerUnit,  rate |-> 15],
       [min |-> 3000000 \div NairaPerUnit,  max |-> 12000000 \div NairaPerUnit, rate |-> 18],
       [min |-> 12000000 \div NairaPerUnit, max |-> 25000000 \div NairaPerUnit, rate |-> 21],
       [min |-> 25000000 \div NairaPerUnit, max |-> 50000000 \div NairaPerUnit, rate |-> 23],
       [min |-> 50000000 \div NairaPerUnit, rate |-> 25] >>     \* max: null

\* `bracket.max === null`
MaxIsNull(bracket) == "max" \notin DOMAIN bracket

RENT_RELIEF_MAX == 200000 \div NairaPerUnit

\* 0.20, as a percentage
RENT_RELIEF_PERCENTAGE == 20

-----------------------------------------------------------------------------
(* Personal engine: src/utils/taxCalculations.ts *)

\* mutant of floorAtZero: no clamp
floorAtZero_NoClamp(x) == x

\* `Math.max(0, ...)` around the taxable income (both engines)
floorAtZero(x) == Max(0, x)

\* mutant of netIncomeOf: the operands of the subtraction are swapped
netIncomeOf_Swapped(income, totalTax) == totalTax - income * 100

\* `grossIncome - totalTax` (both engines); the income is brought to hundredths
netIncomeOf(income, totalTax) == income * 100 - totalTax

\* mutant of calculateRentRelief: the cap is forgotten
calculateRentRelief_NoCap(annualRentPaid) ==
    IF annualRentPaid <= 0
    THEN 0
    ELSE PercentOf(annualRentPaid, RENT_RELIEF_PERCENTAGE)

calculateRentRelief(annualRentPaid) ==
    IF annualRentPaid <= 0
    THEN 0
    ELSE LET twentyPercentOfRent == PercentOf(annualRentPaid, RENT_RELIEF_PERCENTAGE)
         IN  Min(RENT_RELIEF_MAX, twentyPercentOfRent)

\* `Math.min(taxableIncome, bracket.max || Infinity)`
MinWithBracketMax(taxableIncome, bracket) ==
    IF MaxIsNull(bracket) THEN taxableIncome ELSE Min(taxableIncome, bracket.max)

\* mutant of incomeInBracket: the bracket's floor is not subtracted
incomeInBracket_FromZero(taxableIncome, bracket) ==
    IF taxableIncome > bracket.min
    THEN Max(0, MinWithBracketMax(taxableIncome, bracket))
    ELSE 0

\* mutant of incomeInBracket: neither the `taxableIncome > bracketMin` test
\* nor the clamp at 0
incomeInBracket_Unguarded(taxableIncome, bracket) ==
    MinWithBracketMax(taxableIncome, bracket) - bracket.min

\* the amount of taxableIncome that the loop body attributes to one bracket
incomeInBracket(taxableIncome, bracket) ==
    IF taxableIncome > bracket.min
    THEN Max(0, MinWithBracketMax(taxableIncome, bracket) - bracket.min)
    ELSE 0

\* the label of a breakdown line, without the locale formatting of the numbers
bracketLabel(bracket) ==
    IF MaxIsNull(bracket) THEN <<"Above", bracket.min>>
                          ELSE <<"Range", bracket.min, bracket.max>>

\* The `for (const bracket of TAX_BRACKETS_2026)` loop from its i-th iteration
\* on, with the accumulators acc = [totalTax, taxPerBracket].  remainingIncome
\* is assigned once, before the loop, and never again.
\* variant: a line is recorded only for a bracket that yields tax
recordsLine_WhenTaxed(inBracket, taxInBracket) == taxInBracket > 0

\* "only if there's income in it": the condition under which a line is pushed
recordsLine(inBracket, taxInBracket) == inBracket > 0

RECURSIVE BracketLoop(_, _, _, _)
BracketLoop(i, taxableIncome, remainingIncome, acc) ==
    IF i > Len(TAX_BRACKETS_2026) \/ remainingIncome <= 0
    THEN acc
    ELSE LET bracket == TAX_BRACKETS_2026[i]
             inBracket == incomeInBracket(taxableIncome, bracket)
             taxInBracket == inBracket * bracket.rate
             line == [bracket |-> bracketLabel(bracket),
                      taxableAmount |-> inBracket,
                      rate |-> bracket.rate,
                      tax |-> taxInBracket]
         IN  BracketLoop(i + 1, taxableIncome, remainingIncome,
                 [totalTax |-> acc.totalTax + taxInBracket,
                  taxPerBracket |-> IF recordsLine(inBracket, taxInBracket)
                                    THEN Append(acc.taxPerBracket, line)
                                    ELSE acc.taxPerBracket])

calculateTax(income, rel) ==
    LET pensionRelief == NumOrZero(rel, "pension")
        nhfRelief == NumOrZero(rel, "nhf")
        nhisRelief == NumOrZero(rel, "nhis")
        lifeInsuranceRelief == NumOrZero(rel, "lifeInsurance")
        rentRelief == calculateRentRelief(NumOrZero(rel, "rentPaid"))
        totalReliefs == pensionRelief + nhfRelief + nhisRelief + lifeInsuranceRelief + rentRelief
        taxableIncome == floorAtZero(income - totalReliefs)
        loop == BracketLoop(1, taxableIncome, taxableIncome,
                            [totalTax |-> 0, taxPerBracket |-> <<>>])
        netIncome == netIncomeOf(income, loop.totalTax)
    IN  [grossIncome |-> income,
         pensionRelief |-> pensionRelief,
         nhfRelief |-> nhfRelief,
         nhisRelief |-> nhisRelief,
         lifeInsuranceRelief |-> lifeInsuranceRelief,
         rentRelief |-> rentRelief,
         totalReliefs |-> totalReliefs,
         taxableIncome |-> taxableIncome,
         taxPerBracket |-> loop.taxPerBracket,
         totalTax |-> loop.totalTax,
         netIncome |-> netIncome]

\* monthlyToAnnual: a monthly amount times the months of a year
monthlyToAnnual(monthlyIncome) == monthlyIncome * 12

\* "x ? monthlyToAnnual(x) : 0": an absent or zero field gives 0
annualizedOrZero(rel, field) ==
    IF field \in DOMAIN rel /\ rel[field] # 0 THEN monthlyToAnnual(rel[field]) ELSE 0

\* variant: the rent is annualized like the per-period fields
annualReliefsOf_RentScaled(monthlyReliefs) ==
    [pension |-> annualizedOrZero(monthlyReliefs, "pension"),
     nhf |-> annualizedOrZero(monthlyReliefs, "nhf"),
     nhis |-> annualizedOrZero(monthlyReliefs, "nhis"),
     lifeInsurance |-> annualizedOrZero(monthlyReliefs, "lifeInsurance"),
     rentPaid |-> annualizedOrZero(monthlyReliefs, "rentPaid")]

\* annualReliefs of calculateTaxFromMonthly: the four per-period fields
\* annualized, the rent passed through, no other field carried over
annualReliefsOf(monthlyReliefs) ==
    [pension |-> annualizedOrZero(monthlyReliefs, "pension"),
     nhf |-> annualizedOrZero(monthlyReliefs, "nhf"),
     nhis |-> annualizedOrZero(monthlyReliefs, "nhis"),
     lifeInsurance |-> annualizedOrZero(monthlyReliefs, "lifeInsurance"),
     rentPaid |-> NumOrZero(monthlyReliefs, "rentPaid")]

calculateTaxFromMonthly(monthlyIncome, monthlyReliefs) ==
    calculateTax(monthlyToAnnual(monthlyIncome), annualReliefsOf(monthlyReliefs))

-----------------------------------------------------------------------------
(* Constants of src/utils/businessTaxCalculations.ts *)

SMALL_COMPANY_TURNOVER_THRESHOLD == 50000000 \div NairaPerUnit

SMALL_COMPANY_ASSETS_THRESHOLD == 250000000 \div NairaPerUnit

\* 0.30, as a percentage
COMPANY_INCOME_TAX_RATE == 30

\* 0.04, as a percentage
DEVELOPMENT_LEVY_RATE == 4

\* 0.15, as a percentage
MINIMUM_EFFECTIVE_TAX_RATE == 15

\* 50,000,000,000 naira
VERY_LARGE_COMPANY_THRESHOLD == 50000 * (1000000 \div NairaPerUnit)

BUSINESS_RENT_RELIEF_MAX == 500000 \div NairaPerUnit

\* 0.20, as a percentage
BUSINESS_RENT_RELIEF_PERCENTAGE == 20

\* 0.50, as a percentage
EMPLOYMENT_RELIEF_RATE == 50

\* 0.50, as a percentage
COMPENSATION_RELIEF_RATE == 50

-----------------------------------------------------------------------------
(* Business engine: src/utils/businessTaxCalculations.ts *)

\* mutant of isSmallCompany: the turnover bound is exclusive
isSmallCompany_Exclusive(annualTurnover, totalFixedAssets) ==
    /\ annualTurnover < SMALL_COMPANY_TURNOVER_THRESHOLD
    /\ totalFixedAssets <= SMALL_COMPANY_ASSETS_THRESHOLD

isSmallCompany(annualTurnover, totalFixedAssets) ==
    /\ annualTurnover <= SMALL_COMPANY_TURNOVER_THRESHOLD
    /\ totalFixedAssets <= SMALL_COMPANY_ASSETS_THRESHOLD

\* mutant of isVeryLargeCompany: the threshold is exclusive
isVeryLargeCompany_Exclusive(annualTurnover) ==
    annualTurnover > VERY_LARGE_COMPANY_THRESHOLD

isVeryLargeCompany(annualTurnover) ==
    annualTurnover >= VERY_LARGE_COMPANY_THRESHOLD

\* mutant of calculateBusinessRentRelief: the personal cap is used
calculateBusinessRentRelief_PersonalCap(annualRentPaid) ==
    IF annualRentPaid <= 0
    THEN 0
    ELSE LET twentyPercentOfRent == PercentOf(annualRentPaid, BUSINESS_RENT_RELIEF_PERCENTAGE)
         IN  Min(RENT_RELIEF_MAX, twentyPercentOfRent)

calculateBusinessRentRelief(annualRentPaid) ==
    IF annualRentPaid <= 0
    THEN 0
    ELSE LET twentyPercentOfRent == PercentOf(annualRentPaid, BUSINESS_RENT_RELIEF_PERCENTAGE)
         IN  Min(BUSINESS_RENT_RELIEF_MAX, twentyPercentOfRent)

\* mutant of ProcessCustomDeductions: every item is added to the taxable income
RECURSIVE ProcessCustomDeductions_AllTaxable(_, _)
ProcessCustomDeductions_AllTaxable(customDeductions, acc) ==
    IF customDeductions = <<>>
    THEN acc
    ELSE ProcessCustomDeductions_AllTaxable(Tail(customDeductions),
             [acc EXCEPT !.customTaxableAdditions = @ + Head(customDeductions).amount])

\* mutant of ProcessCustomDeductions: every item is deducted, taxable or not
RECURSIVE ProcessCustomDeductions_AllDeducted(_, _)
ProcessCustomDeductions_AllDeducted(customDeductions, acc) ==
    IF customDeductions = <<>>
    THEN acc
    ELSE ProcessCustomDeductions_AllDeducted(Tail(customDeductions),
             [acc EXCEPT !.customDeductionsTotal = @ + Head(customDeductions).amount])

\* The `customDeductions.forEach` loop: the two accumulators after the list
RECURSIVE ProcessCustomDeductions(_, _)
ProcessCustomDeductions(customDeductions, acc) ==
    IF customDeductions = <<>>
    THEN acc
    ELSE LET deduction == Head(customDeductions)
         IN  ProcessCustomDeductions(Tail(customDeductions),
                 IF deduction.isTaxable
                 THEN [acc EXCEPT !.customTaxableAdditions = @ + deduction.amount]
                 ELSE [acc EXCEPT !.customDeductionsTotal = @ + deduction.amount])

\* mutant of companyIncomeTaxOf: the small-company exemption is forgotten
companyIncomeTaxOf_SmallPays(taxableIncome, isSmallCompanyExempt, isStartupExempt, isAgriculturalExempt) ==
    IF isStartupExempt \/ isAgriculturalExempt
    THEN 0
    ELSE taxableIncome * COMPANY_INCOME_TAX_RATE

\* mutant of companyIncomeTaxOf: the agricultural holiday is forgotten
companyIncomeTaxOf_NoHoliday(taxableIncome, isSmallCompanyExempt, isStartupExempt, isAgriculturalExempt) ==
    IF isSmallCompanyExempt \/ isStartupExempt
    THEN 0
    ELSE taxableIncome * COMPANY_INCOME_TAX_RATE

\* Step 5: Company Income Tax
companyIncomeTaxOf(taxableIncome, isSmallCompanyExempt, isStartupExempt, isAgriculturalExempt) ==
    IF isSmallCompanyExempt \/ isStartupExempt \/ isAgriculturalExempt
    THEN 0
    ELSE taxableIncome * COMPANY_INCOME_TAX_RATE

\* mutant of developmentLevyOf: the levy is charged to small companies too
developmentLevyOf_NoExemption(taxableIncome, isSmallCompanyExempt) ==
    taxableIncome * DEVELOPMENT_LEVY_RATE

\* Step 6: Development Levy
developmentLevyOf(taxableIncome, isSmallCompanyExempt) ==
    IF isSmallCompanyExempt
    THEN 0
    ELSE taxableIncome * DEVELOPMENT_LEVY_RATE

\* Step 8: the minimumEffectiveTax variable after the `if (isVeryLargeCompany(...))`
minimumEffectiveTaxOf(income, taxableIncome) ==
    IF isVeryLargeCompany(income)
    THEN taxableIncome * MINIMUM_EFFECTIVE_TAX_RATE
    ELSE 0

\* mutant of totalTaxOf: the minimum effective tax is never applied
totalTaxOf_NoMinimum(income, companyIncomeTax, developmentLevy, minimumEffectiveTax) ==
    companyIncomeTax + developmentLevy

\* mutant of totalTaxOf: a very large company pays the minimum instead of the sum
totalTaxOf_MinimumReplaces(income, companyIncomeTax, developmentLevy, minimumEffectiveTax) ==
    IF isVeryLargeCompany(income)
    THEN minimumEffectiveTax
    ELSE companyIncomeTax + developmentLevy

\* Steps 7 and 8: the totalTax variable after the `if (isVeryLargeCompany(...))`
totalTaxOf(income, companyIncomeTax, developmentLevy, minimumEffectiveTax) ==
    IF isVeryLargeCompany(income) /\ companyIncomeTax + developmentLevy < minimumEffectiveTax
    THEN minimumEffectiveTax
    ELSE companyIncomeTax + developmentLevy

\* mutant of effectiveTaxRateOf: the division is not guarded
effectiveTaxRateOf_Unguarded(income, totalTax) == [num |-> totalTax, den |-> income]

\* Step 10: totalTax / grossIncome * 100, kept as a fraction num/den.  totalTax
\* is in hundredths of a unit and income in units, so the percentage is totalTax/income.
effectiveTaxRateOf(income, totalTax) ==
    IF income > 0 THEN [num |-> totalTax, den |-> income] ELSE [num |-> 0, den |-> 1]

calculateBusinessTax(income, size, type, rel, assetsArg) ==
    LET totalFixedAssets == ArgOrDefault(assetsArg, 0)
        isSmallCompanyExempt == size = "small" /\ isSmallCompany(income, totalFixedAssets)
        isStartupExempt == type = "startup"
        isAgriculturalExempt == type = "agricultural"
        pensionRelief == NumOrZero(rel, "pension")
        nhfRelief == NumOrZero(rel, "nhf")
        nhisRelief == NumOrZero(rel, "nhis")
        rentRelief == calculateBusinessRentRelief(NumOrZero(rel, "rentPaid"))
        employmentRelief == PercentOf(NumOrZero(rel, "employmentRelief"), EMPLOYMENT_RELIEF_RATE)
        compensationRelief == PercentOf(NumOrZero(rel, "compensationRelief"), COMPENSATION_RELIEF_RATE)
        customDeductions == ListOrEmpty(rel, "customDeductions")
        custom == ProcessCustomDeductions(customDeductions,
                      [customDeductionsTotal |-> 0, customTaxableAdditions |-> 0])
        totalReliefs == pensionRelief + nhfRelief + nhisRelief + rentRelief
                        + employmentRelief + compensationRelief + custom.customDeductionsTotal
        taxableIncome == floorAtZero(income - totalReliefs + custom.customTaxableAdditions)
        companyIncomeTax == companyIncomeTaxOf(taxableIncome, isSmallCompanyExempt,
                                               isStartupExempt, isAgriculturalExempt)
        developmentLevy == developmentLevyOf(taxableIncome, isSmallCompanyExempt)
        minimumEffectiveTax == minimumEffectiveTaxOf(income, taxableIncome)
        totalTax == totalTaxOf(income, companyIncomeTax, developmentLevy, minimumEffectiveTax)
        netIncome == netIncomeOf(income, totalTax)
    IN  [grossIncome |-> income,
         companySize |-> size,
         businessType |-> type,
         pensionRelief |-> pensionRelief,
         nhfRelief |-> nhfRelief,
         nhisRelief |-> nhisRelief,
         rentRelief |-> rentRelief,
         employmentRelief |-> employmentRelief,
         compensationRelief |-> compensationRelief,
         customDeductionsTotal |-> custom.customDeductionsTotal,
         customDeductions |-> customDeductions,
         totalReliefs |-> totalReliefs,
         taxableIncome |-> taxableIncome,
         companyIncomeTax |-> companyIncomeTax,
         developmentLevy |-> developmentLevy,
         minimumEffectiveTax |-> minimumEffectiveTax,
         totalTax |-> totalTax,
         isSmallCompanyExempt |-> isSmallCompanyExempt,
         isStartupExempt |-> isStartupExempt,
         isAgriculturalExempt |-> isAgriculturalExempt,
         netIncome |-> netIncome,
         effectiveTaxRate |-> effectiveTaxRateOf(income, totalTax)]

-----------------------------------------------------------------------------
(* The arguments the calls are drawn from *)

\* how far around each threshold the gross incomes and fixed assets are drawn
MaxDelta == 1

\* how many relief fields and custom items, together, one reliefs record carries
MaxReliefItems == 2

\* variant: the monthly wrapper annualizes by the weeks of a year
calculateBusinessTaxFromMonthly_ByWeeks(monthlyIncome, size, type, rel, assetsArg) ==
    calculateBusinessTax(monthlyIncome * 52, size, type, rel, assetsArg)

calculateBusinessTaxFromMonthly(monthlyIncome, size, type, rel, assetsArg) ==
    calculateBusinessTax(monthlyIncome * 12, size, type, rel, assetsArg)

calculateBusinessTaxFromWeekly(weeklyIncome, size, type, rel, assetsArg) ==
    calculateBusinessTax(weeklyIncome * 52, size, type, rel, assetsArg)

Around(points) == {b + d : b \in points, d \in (0 - MaxDelta)..MaxDelta}

\* 1,000,000 naira, the income of the worked examples
ExampleIncome == 1000000 \div NairaPerUnit

\* 60,000,000,000 naira, the turnover of the very-large example
ExampleVeryLargeIncome == 60000 * (1000000 \div NairaPerUnit)

BracketBounds ==
    {TAX_BRACKETS_2026[i].min : i \in 1..Len(TAX_BRACKETS_2026)}

PersonalIncomes == Around(BracketBounds) \cup {ExampleIncome}

BusinessIncomes ==
    Around({0, SMALL_COMPANY_TURNOVER_THRESHOLD, VERY_LARGE_COMPANY_THRESHOLD})
        \cup {ExampleIncome, ExampleVeryLargeIncome}

\* period incomes whose annualized values fall on either side of each bound
MonthlyIncomes == Around({b \div 12 : b \in BracketBounds}) \cup {ExampleIncome}

\* the weekly personal call is made by the calculator screen alone, which
\* rejects an income that is not positive
WeeklyIncomes ==
    {w \in Around({b \div 52 : b \in BracketBounds}) \cup {ExampleIncome} : w > 0}

BusinessThresholds == {SMALL_COMPANY_TURNOVER_THRESHOLD, VERY_LARGE_COMPANY_THRESHOLD}

BusinessMonthlyIncomes == Around({t \div 12 : t \in BusinessThresholds})

BusinessWeeklyIncomes == Around({t \div 52 : t \in BusinessThresholds})

CompanySizes == {"small", "medium", "large"}

BusinessTypes == {"general", "startup", "agricultural"}

FixedAssetsArgs ==
    {<<>>} \cup {<<SMALL_COMPANY_ASSETS_THRESHOLD + d>> : d \in 0..MaxDelta}

PersonalFields == {"pension", "nhf", "nhis", "lifeInsurance", "rentPaid"}

BusinessFields == {"pension", "nhf", "nhis", "rentPaid", "employmentRelief", "compensationRelief"}

\* the amounts a relief field takes when present, in units; every rent and
\* every employment/compensation base has a whole number of units as its
\* 20% resp. 50%.  The rents: a negative one, 500,000 (20% below both caps),
\* 2,500,000 (20% exactly the business cap) and 10,000,000 (above both caps).
FieldAmounts ==
    [pension |-> {40}, nhf |-> {12}, nhis |-> {6}, lifeInsurance |-> {9},
     rentPaid |-> {0 - 50, 50, 250, 1000}, employmentRelief |-> {20}, compensationRelief |-> {14}]

AllAmounts == UNION {FieldAmounts[f] : f \in DOMAIN FieldAmounts}

\* the records with exactly k of the numeric fields present
NumericReliefs(fields, k) ==
    UNION { {r \in [S -> AllAmounts] : \A f \in S : r[f] \in FieldAmounts[f]} :
            S \in {T \in SUBSET fields : Cardinality(T) = k} }

\* a taxable addition of 100,000 naira and a deduction of 50,000 naira
ItemKinds == {[amount |-> 10, isTaxable |-> TRUE], [amount |-> 5, isTaxable |-> FALSE]}

\* the CustomDeduction lists of at most n items
DeductionLists(n) ==
    { [i \in 1..m |-> [id |-> i, name |-> "item",
                       amount |-> kinds[i].amount, isTaxable |-> kinds[i].isTaxable]] :
      <<m, kinds>> \in UNION {{<<l, ks>> : ks \in [1..l -> ItemKinds]} : l \in 0..n} }

WithCustomDeductions(r, list) ==
    IF list = <<>> THEN r ELSE ("customDeductions" :> list) @@ r

\* the record the calculator screen builds from empty inputs: every field 0
AllPresentZero(fields) ==
    ("customDeductions" :> <<>>) @@ [f \in fields |-> 0]

ReliefInputs(fields) ==
    { WithCustomDeductions(p[1], p[2]) :
        p \in UNION { NumericReliefs(fields, k) \X DeductionLists(MaxReliefItems - k) :
                      k \in 0..MaxReliefItems } }
    \cup {AllPresentZero(fields)}

PersonalReliefInputs == ReliefInputs(PersonalFields)

\* a TaxReliefs record is assignable to BusinessTaxReliefs, so the business
\* engine may be handed a record that carries a lifeInsurance field
BusinessReliefInputs == ReliefInputs(BusinessFields \cup {"lifeInsurance"})

NoResult == [returned |-> FALSE]

-----------------------------------------------------------------------------
(* The state machine: one call of an engine function *)

PersonalCallees ==
    {"calculateTax", "calculateTaxFromMonthly", "calculateTaxFromWeekly"}

BusinessCallees ==
    {"calculateBusinessTax", "calculateBusinessTaxFromMonthly",
     "calculateBusinessTaxFromWeekly"}

\* the incomes drawn for each function: grossIncome holds the income argument,
\* annual for the engines and per period for the wrappers
IncomesOf ==
    [calculateTax |-> PersonalIncomes,
     calculateTaxFromMonthly |-> MonthlyIncomes,
     calculateTaxFromWeekly |-> WeeklyIncomes,
     calculateBusinessTax |-> BusinessIncomes,
     calculateBusinessTaxFromMonthly |-> BusinessMonthlyIncomes,
     calculateBusinessTaxFromWeekly |-> BusinessWeeklyIncomes]

\* the history provider before it is mounted
HistoryIdle ==
    /\ data = <<>>
    /\ pendingData = <<>>
    /\ isLoading = TRUE
    /\ refreshing = FALSE
    /\ cache = <<>>
    /\ inflight = <<>>
    /\ now = 0
    /\ log = <<>>

\* the keys of SECURE_KEYS
SECURE_KEYS ==
    {"PASSWORD", "BIOMETRIC_ENABLED", "LOCK_TIMEOUT", "BACKGROUND_TIMESTAMP"}

\* a handler that is not running
IdleTask == [pc |-> "idle", arg |-> "none", local |-> <<>>]

\* the security provider before it is mounted
SecurityIdle ==
    /\ isLocked = FALSE
    /\ hasPassword = FALSE
    /\ isBiometricEnabled = FALSE
    /\ lockTimeout = 0
    /\ storage = [k \in SECURE_KEYS |-> <<>>]
    /\ appState = "active"
    /\ osState = "active"
    /\ tasks = [h \in {"load", "appChange", "removeSecurity"} |-> IdleTask]

\* the keys of STORAGE_KEYS
STORAGE_KEYS ==
    {"USER_ID", "EMAIL", "PASSWORD", "BIOMETRIC_ENABLED", "USER_NAME", "IMAGE_URL"}

\* no AuthProvider handler has been called
NoCall == [op |-> "none", ok |-> TRUE, previous |-> [op |-> "none", ok |-> TRUE]]

\* the auth provider before it is mounted
AuthIdle ==
    /\ user = <<>>
    /\ authIsLoading = TRUE
    /\ isBiometricAvailable = FALSE
    /\ secureStore = [k \in STORAGE_KEYS |-> <<>>]
    /\ users = <<>>
    /\ lastCall = NoCall
    /\ lastLogout = <<>>

Init ==
    /\ HistoryIdle
    /\ SecurityIdle
    /\ AuthIdle
    /\ pc = "call"
    /\ result = NoResult
    /\ callee \in PersonalCallees \cup BusinessCallees
    /\ grossIncome \in IncomesOf[callee]
    /\ IF callee \in PersonalCallees
       THEN /\ reliefs \in PersonalReliefInputs
            /\ companySize = "none"
            /\ businessType = "none"
            /\ fixedAssets = <<>>
       ELSE /\ reliefs \in BusinessReliefInputs
            /\ companySize \in CompanySizes
            /\ businessType \in BusinessTypes
            /\ fixedAssets \in FixedAssetsArgs

args == <<callee, grossIncome, reliefs, companySize, businessType, fixedAssets>>

CallCalculateTax ==
    /\ pc = "call"
    /\ callee = "calculateTax"
    /\ result' = calculateTax(grossIncome, reliefs)
    /\ pc' = "returned"
    /\ UNCHANGED <<args, appVars>>

CallCalculateTaxFromMonthly ==
    /\ pc = "call"
    /\ callee = "calculateTaxFromMonthly"
    /\ result' = calculateTaxFromMonthly(grossIncome, reliefs)
    /\ pc' = "returned"
    /\ UNCHANGED <<args, appVars>>

\* taxCalculations.ts exports no calculateTaxFromWeekly: the name the calculator
\* screen imports is undefined, and calling it throws a TypeError before any
\* breakdown is produced
CallCalculateTaxFromWeekly ==
    /\ pc = "call"
    /\ callee = "calculateTaxFromWeekly"
    /\ result' = NoResult
    /\ pc' = "threw"
    /\ UNCHANGED <<args, appVars>>

CallCalculateBusinessTax ==
    /\ pc = "call"
    /\ callee = "calculateBusinessTax"
    /\ result' = calculateBusinessTax(grossIncome, companySize, businessType, reliefs, fixedAssets)
    /\ pc' = "returned"
    /\ UNCHANGED <<args, appVars>>

CallCalculateBusinessTaxFromMonthly ==
    /\ pc = "call"
    /\ callee = "calculateBusinessTaxFromMonthly"
    /\ result' = calculateBusinessTaxFromMonthly(grossIncome, companySize, businessType, reliefs, fixedAssets)
    /\ pc' = "returned"
    /\ UNCHANGED <<args, appVars>>

CallCalculateBusinessTaxFromWeekly ==
    /\ pc = "call"
    /\ callee = "calculateBusinessTaxFromWeekly"
    /\ result' = calculateBusinessTaxFromWeekly(grossIncome, companySize, businessType, reliefs, fixedAssets)
    /\ pc' = "returned"
    /\ UNCHANGED <<args, appVars>>

Next ==
    \/ CallCalculateTax
    \/ CallCalculateTaxFromMonthly
    \/ CallCalculateTaxFromWeekly
    \/ CallCalculateBusinessTax
    \/ CallCalculateBusinessTaxFromMonthly
    \/ CallCalculateBusinessTaxFromWeekly

Spec == Init /\ [][Next]_vars

Personal == pc = "returned" /\ callee = "calculateTax"

Business == pc = "returned" /\ callee = "calculateBusinessTax"

-----------------------------------------------------------------------------
(* Vocabulary of the properties *)

Brackets == 1..Len(TAX_BRACKETS_2026)

\* the width of the part of [0, t) that lies inside [bracket.min, bracket.max)
SliceWidth(t, bracket) ==
    LET upper == IF MaxIsNull(bracket) THEN Max(t, bracket.min) ELSE bracket.max
    IN  Max(0, Min(t, upper) - bracket.min)

\* the reliefs record carries no relief at all: no nonzero amount, no custom item
ZeroReliefs(r) ==
    \A f \in DOMAIN r : IF f = "customDeductions" THEN r[f] = <<>> ELSE r[f] = 0

\* the sum of the amounts of the custom items whose isTaxable flag is `taxable`
CustomSum(list, taxable) ==
    SumSeq([i \in 1..Len(list) |->
                IF list[i].isTaxable = taxable THEN list[i].amount ELSE 0])

CustomList == ListOrEmpty(reliefs, "customDeductions")

\* totalFixedAssets as the business engine sees it
AssetsGiven == ArgOrDefault(fixedAssets, 0)

-----------------------------------------------------------------------------
(* Properties of the engines *)

\* C1: for every gross income >= 0 with zero reliefs, the totalTax returned by
\* calculateTax is the sum over all brackets of (slice of taxableIncome inside
\* [min, max)) * rate/100, the slices add up to taxableIncome, and the emitted
\* taxPerBracket lines have taxableAmounts adding up to taxableIncome and taxes
\* adding up to totalTax.
C1_TaxIsSumOfSlices ==
    (Personal /\ grossIncome >= 0 /\ ZeroReliefs(reliefs)) =>
        LET t == result.taxableIncome
            lines == result.taxPerBracket
        IN  /\ result.totalTax =
                   SumSeq([i \in Brackets |->
                       SliceWidth(t, TAX_BRACKETS_2026[i]) * TAX_BRACKETS_2026[i].rate])
            /\ SumSeq([i \in Brackets |-> SliceWidth(t, TAX_BRACKETS_2026[i])]) = t
            /\ SumSeq([i \in 1..Len(lines) |-> lines[i].taxableAmount]) = t
            /\ SumSeq([i \in 1..Len(lines) |-> lines[i].tax]) = result.totalTax

\* C1 witness: an income above the last bracket's floor, taxed in all six brackets
C1_Witness ==
    /\ Personal /\ ZeroReliefs(reliefs)
    /\ grossIncome = SMALL_COMPANY_TURNOVER_THRESHOLD + 1
    /\ Len(result.taxPerBracket) = Len(TAX_BRACKETS_2026)
    /\ result.totalTax > 0

\* C2: the business totalTax is max(companyIncomeTax + developmentLevy,
\* minimumEffectiveTax); when grossIncome >= 50,000,000,000 and the sum is below
\* 15% of taxableIncome, totalTax is exactly 15% of taxableIncome; when the sum
\* is not below the minimum, totalTax is the sum.
C2_TotalTaxIsMax ==
    Business =>
        LET sum == result.companyIncomeTax + result.developmentLevy
            floor == result.taxableIncome * MINIMUM_EFFECTIVE_TAX_RATE
        IN  /\ result.totalTax = Max(sum, result.minimumEffectiveTax)
            /\ (grossIncome >= VERY_LARGE_COMPANY_THRESHOLD /\ sum < floor)
                   => result.totalTax = floor
            /\ sum >= result.minimumEffectiveTax => result.totalTax = sum

\* C2 witness: the 60,000,000,000 startup, whose 4% levy is below the 15% minimum
C2_Witness ==
    /\ Business
    /\ grossIncome = ExampleVeryLargeIncome
    /\ result.taxableIncome > 0
    /\ result.companyIncomeTax + result.developmentLevy
           < result.taxableIncome * MINIMUM_EFFECTIVE_TAX_RATE
    /\ result.totalTax = result.taxableIncome * MINIMUM_EFFECTIVE_TAX_RATE

\* C3 as stated: developmentLevy is 0 if AND ONLY IF isSmallCompanyExempt holds,
\* and 4% of taxableIncome otherwise.  (Stated here for the positive gross
\* incomes only, the ones the calculator screen lets through.)
C3_LevyZeroIffExempt ==
    (Business /\ grossIncome > 0) =>
        /\ (result.developmentLevy = 0) <=> result.isSmallCompanyExempt
        /\ ~result.isSmallCompanyExempt =>
               result.developmentLevy = result.taxableIncome * DEVELOPMENT_LEVY_RATE

\* C3 amended: developmentLevy is 0 when isSmallCompanyExempt holds and 4% of
\* taxableIncome otherwise, so it is 0 exactly when the company is small-exempt
\* or taxableIncome is 0; a startup or agricultural business that is not
\* small-exempt has companyIncomeTax = 0 and still owes 4% of taxableIncome.
C3_LevyAsymmetry ==
    Business =>
        /\ result.developmentLevy =
               IF result.isSmallCompanyExempt
               THEN 0
               ELSE result.taxableIncome * DEVELOPMENT_LEVY_RATE
        /\ (result.developmentLevy = 0) <=>
               (result.isSmallCompanyExempt \/ result.taxableIncome = 0)
        /\ (businessType \in {"startup", "agricultural"} /\ ~result.isSmallCompanyExempt)
               => /\ result.companyIncomeTax = 0
                  /\ result.developmentLevy = result.taxableIncome * DEVELOPMENT_LEVY_RATE

\* C3 witness: a startup that is not small-exempt pays no CIT but a levy
C3_Witness ==
    /\ Business
    /\ businessType = "startup"
    /\ ~result.isSmallCompanyExempt
    /\ result.companyIncomeTax = 0
    /\ result.developmentLevy > 0
    /\ result.totalTax = result.developmentLevy

\* C4: companyIncomeTax is 0 when any of the three exemptions holds and 30% of
\* taxableIncome when none holds; a general business that is not small-exempt
\* owes 30% CIT plus 4% levy on taxableIncome.
C4_CompanyIncomeTax ==
    Business =>
        /\ result.companyIncomeTax =
               IF \/ result.isSmallCompanyExempt
                  \/ result.isStartupExempt
                  \/ result.isAgriculturalExempt
               THEN 0
               ELSE result.taxableIncome * COMPANY_INCOME_TAX_RATE
        /\ (businessType = "general" /\ ~result.isSmallCompanyExempt)
               => /\ result.companyIncomeTax = result.taxableIncome * COMPANY_INCOME_TAX_RATE
                  /\ result.developmentLevy = result.taxableIncome * DEVELOPMENT_LEVY_RATE
                  /\ result.totalTax = result.taxableIncome
                         * (COMPANY_INCOME_TAX_RATE + DEVELOPMENT_LEVY_RATE)

\* C4 witness: a medium general company with taxable income pays 30% + 4%
C4_Witness ==
    /\ Business
    /\ companySize = "medium" /\ businessType = "general"
    /\ result.taxableIncome > 0
    /\ result.companyIncomeTax = result.taxableIncome * COMPANY_INCOME_TAX_RATE
    /\ result.developmentLevy = result.taxableIncome * DEVELOPMENT_LEVY_RATE

\* C5: isSmallCompanyExempt is true exactly when companySize is 'small' and
\* grossIncome <= 50,000,000 and totalFixedAssets <= 250,000,000 (both
\* inclusive, totalFixedAssets defaulting to 0); isStartupExempt exactly when
\* businessType is 'startup', isAgriculturalExempt exactly when 'agricultural';
\* at 50,000,000 / 250,000,000 / small the result has CIT = 0 and levy = 0.
C5_Classification ==
    Business =>
        /\ result.isSmallCompanyExempt <=>
               /\ companySize = "small"
               /\ grossIncome <= 50000000 \div NairaPerUnit
               /\ AssetsGiven <= 250000000 \div NairaPerUnit
        /\ result.isStartupExempt <=> businessType = "startup"
        /\ result.isAgriculturalExempt <=> businessType = "agricultural"
        /\ ( /\ companySize = "small"
             /\ grossIncome = 50000000 \div NairaPerUnit
             /\ fixedAssets = <<250000000 \div NairaPerUnit>> )
               => /\ result.isSmallCompanyExempt
                  /\ result.companyIncomeTax = 0
                  /\ result.developmentLevy = 0

\* C5 witness: the company exactly on both thresholds, with taxable income
C5_Witness ==
    /\ Business
    /\ companySize = "small" /\ businessType = "general"
    /\ grossIncome = 50000000 \div NairaPerUnit
    /\ fixedAssets = <<250000000 \div NairaPerUnit>>
    /\ result.taxableIncome > 0
    /\ result.isSmallCompanyExempt
    /\ result.totalTax = 0

\* C6: calculateBusinessTax sums the amounts with isTaxable = false into
\* customDeductionsTotal, which is part of totalReliefs, sums the amounts with
\* isTaxable = true into an addition that is not part of totalReliefs, and
\* taxableIncome = max(0, grossIncome - totalReliefs + taxable additions); one
\* taxable item of 100,000 and one deductible item of 50,000 against a gross
\* income of 1,000,000 with no other relief give taxableIncome = 1,050,000.
C6_CustomDeductionPartition ==
    Business =>
        /\ result.customDeductionsTotal = CustomSum(CustomList, FALSE)
        /\ result.totalReliefs =
               result.pensionRelief + result.nhfRelief + result.nhisRelief
               + result.rentRelief + result.employmentRelief + result.compensationRelief
               + CustomSum(CustomList, FALSE)
        /\ result.taxableIncome =
               Max(0, grossIncome - result.totalReliefs + CustomSum(CustomList, TRUE))
        /\ ( /\ grossIncome = 1000000 \div NairaPerUnit
             /\ DOMAIN reliefs = {"customDeductions"}
             /\ Len(CustomList) = 2
             /\ CustomSum(CustomList, TRUE) = 100000 \div NairaPerUnit
             /\ CustomSum(CustomList, FALSE) = 50000 \div NairaPerUnit )
               => result.taxableIncome = 1050000 \div NairaPerUnit

\* C6 witness: the example of the claim
C6_Witness ==
    /\ Business
    /\ grossIncome = 1000000 \div NairaPerUnit
    /\ DOMAIN reliefs = {"customDeductions"}
    /\ Len(CustomList) = 2
    /\ CustomList[1].isTaxable /\ CustomList[1].amount = 100000 \div NairaPerUnit
    /\ ~CustomList[2].isTaxable /\ CustomList[2].amount = 50000 \div NairaPerUnit
    /\ result.totalReliefs = 50000 \div NairaPerUnit
    /\ result.taxableIncome = 1050000 \div NairaPerUnit

\* C7: calculateTax handles custom deductions as the business engine does:
\* totalReliefs is the five named reliefs plus customDeductionsTotal (the sum of
\* the items with isTaxable = false), taxableIncome = max(0, grossIncome -
\* totalReliefs + taxable additions), and the returned TaxBreakdown carries
\* customDeductionsTotal and the custom deduction itemization.  (Stated here
\* for the calls that pass a positive income and at least one custom item.)
C7_PersonalCustomDeductions ==
    (Personal /\ grossIncome > 0 /\ CustomList # <<>>) =>
        /\ "customDeductionsTotal" \in DOMAIN result
        /\ "customDeductions" \in DOMAIN result
        /\ result.customDeductionsTotal = CustomSum(CustomList, FALSE)
        /\ result.customDeductions = CustomList
        /\ result.totalReliefs =
               result.pensionRelief + result.nhfRelief + result.nhisRelief
               + result.lifeInsuranceRelief + result.rentRelief
               + CustomSum(CustomList, FALSE)
        /\ result.taxableIncome =
               Max(0, grossIncome - result.totalReliefs + CustomSum(CustomList, TRUE))

\* C8: with the other arguments fixed, a larger gross income never has a
\* smaller totalTax, in either engine: every income of the drawn set that is
\* not above the income of the call has a totalTax not above the call's.
C8_Monotonic ==
    /\ Personal =>
           \A income1 \in PersonalIncomes :
               income1 <= grossIncome =>
                   calculateTax(income1, reliefs).totalTax <= result.totalTax
    /\ Business =>
           \A income1 \in BusinessIncomes :
               income1 <= grossIncome =>
                   calculateBusinessTax(income1, companySize, businessType,
                                        reliefs, fixedAssets).totalTax <= result.totalTax

\* C8 witness: a large startup exactly at the very-large threshold owes (the
\* 15% minimum) strictly more than the same company just below the threshold
\* (the 4% levy), which owes strictly more than at the small-company threshold
C8_Witness ==
    /\ Business
    /\ companySize = "large" /\ businessType = "startup"
    /\ grossIncome = VERY_LARGE_COMPANY_THRESHOLD
    /\ result.totalTax = result.minimumEffectiveTax
    /\ calculateBusinessTax(VERY_LARGE_COMPANY_THRESHOLD - 1, companySize, businessType,
                            reliefs, fixedAssets).totalTax < result.totalTax
    /\ calculateBusinessTax(SMALL_COMPANY_TURNOVER_THRESHOLD, companySize, businessType,
                            reliefs, fixedAssets).totalTax
           < calculateBusinessTax(VERY_LARGE_COMPANY_THRESHOLD - 1, companySize,
                                  businessType, reliefs, fixedAssets).totalTax

\* C9: calculateTax returns totalTax = 0 whenever taxableIncome <= 800,000, in
\* particular for an income of exactly 800,000 with no reliefs; a taxableIncome
\* exactly equal to a bracket's upper bound contributes 0 to the next bracket
\* and produces no breakdown line for it.
C9_ZeroRateBoundary ==
    Personal =>
        /\ result.taxableIncome <= 800000 \div NairaPerUnit => result.totalTax = 0
        /\ (grossIncome = 800000 \div NairaPerUnit /\ ZeroReliefs(reliefs))
               => /\ result.taxableIncome = 800000 \div NairaPerUnit
                  /\ result.totalTax = 0
        /\ \A i \in Brackets :
               (~MaxIsNull(TAX_BRACKETS_2026[i])
                    /\ result.taxableIncome = TAX_BRACKETS_2026[i].max)
               => /\ Len(result.taxPerBracket) = i
                  /\ \A k \in 1..Len(result.taxPerBracket) :
                         result.taxPerBracket[k].bracket
                             # bracketLabel(TAX_BRACKETS_2026[i + 1])
                  /\ result.totalTax =
                         SumSeq([j \in 1..i |->
                             (TAX_BRACKETS_2026[j].max - TAX_BRACKETS_2026[j].min)
                                 * TAX_BRACKETS_2026[j].rate])

\* C9 witness: an income of exactly 800,000 with no reliefs: one line, no tax
C9_Witness ==
    /\ Personal /\ ZeroReliefs(reliefs)
    /\ grossIncome = 800000 \div NairaPerUnit
    /\ Len(result.taxPerBracket) = 1
    /\ result.taxPerBracket[1].taxableAmount = 800000 \div NairaPerUnit
    /\ result.totalTax = 0

\* C10: in every breakdown of either engine, netIncome = grossIncome - totalTax
\* and the grossIncome field is the gross income the engine was called with.
\* (grossIncome is in units and the taxes in hundredths of a unit.)
C10_NetIncome ==
    (Personal \/ Business) =>
        /\ result.grossIncome = grossIncome
        /\ result.netIncome = grossIncome * 100 - result.totalTax

\* C10 witness: a call that owes tax, so that net and gross income differ
C10_Witness ==
    /\ Personal
    /\ result.totalTax > 0
    /\ result.netIncome < grossIncome * 100
    /\ result.netIncome = grossIncome * 100 - result.totalTax

\* C10 witness for the business engine, at the very-large example
C10_WitnessBusiness ==
    /\ Business
    /\ grossIncome = ExampleVeryLargeIncome
    /\ result.totalTax > 0
    /\ result.netIncome = grossIncome * 100 - result.totalTax

\* the rent handed to the engine, 0 when the field is absent
RentPaid == NumOrZero(reliefs, "rentPaid")

\* C11: calculateRentRelief(rentPaid) = min(200,000, 20% of rentPaid) when
\* rentPaid > 0 and 0 when rentPaid <= 0 or absent, so the relief lies within
\* [0, 200,000]; a rent of 10,000,000 gives 200,000 and a rent of 500,000 gives
\* 100,000; calculateTax uses exactly this value as rentRelief.
C11_PersonalRentRelief ==
    Personal =>
        /\ result.rentRelief = calculateRentRelief(RentPaid)
        /\ RentPaid <= 0 => result.rentRelief = 0
        /\ RentPaid > 0 =>
               result.rentRelief * 100 = Min((200000 \div NairaPerUnit) * 100, RentPaid * 20)
        /\ result.rentRelief >= 0
        /\ result.rentRelief <= 200000 \div NairaPerUnit
        /\ RentPaid = 10000000 \div NairaPerUnit
               => result.rentRelief = 200000 \div NairaPerUnit
        /\ RentPaid = 500000 \div NairaPerUnit
               => result.rentRelief = 100000 \div NairaPerUnit

\* C11 witness: a rent of 10,000,000, on which the cap binds
C11_Witness ==
    /\ Personal
    /\ RentPaid = 10000000 \div NairaPerUnit
    /\ result.rentRelief = 200000 \div NairaPerUnit
    /\ result.totalReliefs >= result.rentRelief

\* C11, second case: a rent of 500,000, on which the percentage binds
C11_WitnessPercentage ==
    /\ Personal
    /\ RentPaid = 500000 \div NairaPerUnit
    /\ result.rentRelief = 100000 \div NairaPerUnit

\* C12: calculateBusinessTax passes pension, NHF and NHIS through unclamped,
\* computes rentRelief = min(500,000, 20% of rentPaid) (0 when rentPaid <= 0),
\* employmentRelief and compensationRelief as 50% of their base amounts, and
\* totalReliefs is exactly the sum of these six plus customDeductionsTotal:
\* no life-insurance term and no taxable custom item.
C12_BusinessReliefs ==
    Business =>
        /\ result.pensionRelief = NumOrZero(reliefs, "pension")
        /\ result.nhfRelief = NumOrZero(reliefs, "nhf")
        /\ result.nhisRelief = NumOrZero(reliefs, "nhis")
        /\ RentPaid <= 0 => result.rentRelief = 0
        /\ RentPaid > 0 =>
               result.rentRelief * 100 = Min((500000 \div NairaPerUnit) * 100, RentPaid * 20)
        /\ result.employmentRelief * 2 = NumOrZero(reliefs, "employmentRelief")
        /\ result.compensationRelief * 2 = NumOrZero(reliefs, "compensationRelief")
        /\ result.customDeductionsTotal = CustomSum(CustomList, FALSE)
        /\ result.totalReliefs =
               result.pensionRelief + result.nhfRelief + result.nhisRelief
               + result.rentRelief + result.employmentRelief + result.compensationRelief
               + result.customDeductionsTotal

\* C12 witness: a record with a life-insurance premium and a rent of 10,000,000:
\* the reliefs total the business rent cap alone
C12_Witness ==
    /\ Business
    /\ "lifeInsurance" \in DOMAIN reliefs /\ reliefs.lifeInsurance > 0
    /\ RentPaid = 10000000 \div NairaPerUnit
    /\ result.rentRelief = 500000 \div NairaPerUnit
    /\ result.totalReliefs = 500000 \div NairaPerUnit

\* C13: the minimumEffectiveTax field is 15% of taxableIncome whenever
\* grossIncome >= 50,000,000,000, binding on totalTax or not, and 0 whenever
\* grossIncome < 50,000,000,000.
C13_MinimumEffectiveTaxField ==
    Business =>
        result.minimumEffectiveTax =
            IF grossIncome >= 50000 * (1000000 \div NairaPerUnit)
            THEN result.taxableIncome * 15
            ELSE 0

\* C13 witness: a general company exactly on the threshold, whose 34% exceed
\* the minimum: the field is reported although it does not bind
C13_Witness ==
    /\ Business
    /\ grossIncome = 50000 * (1000000 \div NairaPerUnit)
    /\ businessType = "general"
    /\ result.taxableIncome > 0
    /\ result.minimumEffectiveTax = result.taxableIncome * 15
    /\ result.totalTax > result.minimumEffectiveTax

C14_WitnessBusiness ==
    /\ Business
    /\ grossIncome > 0
    /\ result.totalReliefs > grossIncome + CustomSum(CustomList, TRUE)
    /\ result.taxableIncome = 0
    /\ result.totalTax = 0

\* the amount, rate and tax of every line of a per-bracket list, in order
LineFigures(lines) ==
    [k \in 1..Len(lines) |->
        <<lines[k].taxableAmount, lines[k].rate, lines[k].tax>>]

\* amount, rate and tax of the brackets holding a nonzero part of [0, t), in
\* bracket order
ExpectedFigures(t) ==
    LET all == [i \in Brackets |->
                   <<SliceWidth(t, TAX_BRACKETS_2026[i]),
                     TAX_BRACKETS_2026[i].rate,
                     SliceWidth(t, TAX_BRACKETS_2026[i]) * TAX_BRACKETS_2026[i].rate>>]
        nonzero(f) == f[1] # 0
    IN  SelectSeq(all, nonzero)

\* C15: taxPerBracket holds exactly one line for each bracket that receives a
\* nonzero slice of taxableIncome, in bracket order, carrying the slice as
\* taxableAmount, the bracket's rate, and slice x rate as tax; for
\* grossIncome = 1,000,000 with no reliefs the lines are (800,000 at 0% -> 0)
\* and (200,000 at 15% -> 30,000), totalTax = 30,000 and netIncome = 970,000.
C15_TaxPerBracket ==
    Personal =>
        /\ LineFigures(result.taxPerBracket) = ExpectedFigures(result.taxableIncome)
        /\ (grossIncome = 1000000 \div NairaPerUnit /\ ZeroReliefs(reliefs)) =>
               /\ LineFigures(result.taxPerBracket) =
                      << <<800000 \div NairaPerUnit, 0, 0>>,
                         <<200000 \div NairaPerUnit, 15, (30000 * 100) \div NairaPerUnit>> >>
               /\ result.totalTax = (30000 * 100) \div NairaPerUnit
               /\ result.netIncome = (970000 * 100) \div NairaPerUnit

\* C15 witness: the worked example, two lines of which the first bears no tax
C15_Witness ==
    /\ Personal /\ ZeroReliefs(reliefs)
    /\ grossIncome = 1000000 \div NairaPerUnit
    /\ Len(result.taxPerBracket) = 2
    /\ result.taxPerBracket[1].tax = 0
    /\ result.taxPerBracket[2].tax = (30000 * 100) \div NairaPerUnit

\* C15, second case: an income in the top bracket, one line per bracket
C15_WitnessAllBrackets ==
    /\ Personal
    /\ Len(result.taxPerBracket) = Len(TAX_BRACKETS_2026)
    /\ result.taxPerBracket[Len(TAX_BRACKETS_2026)].bracket[1] = "Above"

\* a call of the named function has returned its breakdown
Returned(name) == pc = "returned" /\ callee = name

\* the call of the named function is over, by return or by throw
Ended(name) == pc # "call" /\ callee = name

C17_WeeklyWrapper ==
    Ended("calculateTaxFromWeekly") =>
        /\ pc = "returned"
        /\ result = calculateTax(52 * grossIncome,
                        [pension |-> 52 * NumOrZero(reliefs, "pension"),
                         nhf |-> 52 * NumOrZero(reliefs, "nhf"),
                         nhis |-> 52 * NumOrZero(reliefs, "nhis"),
                         lifeInsurance |-> 52 * NumOrZero(reliefs, "lifeInsurance"),
                         rentPaid |-> RentPaid])

\* C18: the business wrappers annualize the income by 12 (monthly) and by 52
\* (weekly): each returns exactly the breakdown of calculateBusinessTax on the
\* annualized income, with companySize, businessType, the reliefs record and
\* totalFixedAssets passed through unchanged.
C18_BusinessWrappers ==
    /\ Ended("calculateBusinessTaxFromMonthly") =>
           /\ pc = "returned"
           /\ result = calculateBusinessTax(12 * grossIncome, companySize,
                                            businessType, reliefs, fixedAssets)
           /\ result.grossIncome = 12 * grossIncome
    /\ Ended("calculateBusinessTaxFromWeekly") =>
           /\ pc = "returned"
           /\ result = calculateBusinessTax(52 * grossIncome, companySize,
                                            businessType, reliefs, fixedAssets)
           /\ result.grossIncome = 52 * grossIncome
    /\ (Ended("calculateBusinessTaxFromMonthly") \/ Ended("calculateBusinessTaxFromWeekly")) =>
           /\ result.companySize = companySize
           /\ result.businessType = businessType
           /\ result.customDeductions = CustomList
           /\ result.pensionRelief = NumOrZero(reliefs, "pension")
           /\ result.employmentRelief * 2 = NumOrZero(reliefs, "employmentRelief")
           /\ result.isSmallCompanyExempt =>
                  \A k \in 1..Len(fixedAssets) :
                      fixedAssets[k] <= 250000000 \div NairaPerUnit

\* C18 witness: a monthly turnover below 50,000,000 whose twelvefold exceeds
\* it, so that the small company loses its exemption on the annual figure
C18_Witness ==
    /\ Returned("calculateBusinessTaxFromMonthly")
    /\ companySize = "small"
    /\ fixedAssets # <<>>
    /\ grossIncome <= 50000000 \div NairaPerUnit
    /\ result.grossIncome = 12 * grossIncome
    /\ result.grossIncome > 50000000 \div NairaPerUnit
    /\ ~ result.isSmallCompanyExempt

\* C18, second case: a weekly turnover whose 52-fold reaches 50,000,000,000
\* while its twelvefold does not
C18_WitnessWeekly ==
    /\ Returned("calculateBusinessTaxFromWeekly")
    /\ 12 * grossIncome < 50000 * (1000000 \div NairaPerUnit)
    /\ result.grossIncome = 52 * grossIncome
    /\ result.taxableIncome > 0
    /\ result.minimumEffectiveTax = result.taxableIncome * 15

\* the rows of the table as the specification lists them: lower bound, upper
\* bound (none for the last row) and rate in percent
ListedRows ==
    << <<0, <<800000>>, 0>>,
       <<800000, <<3000000>>, 15>>,
       <<3000000, <<12000000>>, 18>>,
       <<12000000, <<25000000>>, 21>>,
       <<25000000, <<50000000>>, 23>>,
       <<50000000, <<>>, 25>> >>

\* a row of TAX_BRACKETS_2026 carries the listed bounds and rate
RowIs(bracket, row) ==
    /\ bracket.min = row[1] \div NairaPerUnit
    /\ bracket.rate = row[3]
    /\ IF row[2] = <<>>
       THEN MaxIsNull(bracket)
       ELSE ~ MaxIsNull(bracket) /\ bracket.max = row[2][1] \div NairaPerUnit

\* the taxable amounts of the first k lines of a per-bracket list, summed
AmountUpTo(lines, k) == SumSeq([j \in 1..k |-> lines[j].taxableAmount])

\* C20: TAX_BRACKETS_2026 is ordered, contiguous and non-overlapping and covers
\* [0, infinity): the first bracket starts at 0, every bracket's max is the next
\* bracket's min, only the last bracket is unbounded, and the rows are those
\* listed; so calculateTax splits every taxableIncome >= 0 into slices that tax
\* no amount twice and leave none untaxed: the k-th line is the k-th bracket's,
\* starts where the (k-1)-th ended, and the lines end at taxableIncome.
C20_BracketTable ==
    /\ TAX_BRACKETS_2026[1].min = 0
    /\ \A i \in Brackets :
           IF i < Len(TAX_BRACKETS_2026)
           THEN /\ ~ MaxIsNull(TAX_BRACKETS_2026[i])
                /\ TAX_BRACKETS_2026[i].min < TAX_BRACKETS_2026[i].max
                /\ TAX_BRACKETS_2026[i].max = TAX_BRACKETS_2026[i + 1].min
           ELSE MaxIsNull(TAX_BRACKETS_2026[i])
    /\ Len(TAX_BRACKETS_2026) = Len(ListedRows)
    /\ \A i \in Brackets : RowIs(TAX_BRACKETS_2026[i], ListedRows[i])
    /\ Personal =>
           LET lines == result.taxPerBracket
               n == Len(lines)
           IN  /\ n <= Len(TAX_BRACKETS_2026)
               /\ AmountUpTo(lines, n) = result.taxableIncome
               /\ \A k \in 1..n :
                      /\ lines[k].rate = TAX_BRACKETS_2026[k].rate
                      /\ lines[k].taxableAmount > 0
                      /\ AmountUpTo(lines, k - 1) = TAX_BRACKETS_2026[k].min
                      /\ k < n => AmountUpTo(lines, k) = TAX_BRACKETS_2026[k].max
                      /\ lines[k].tax = lines[k].taxableAmount * TAX_BRACKETS_2026[k].rate
               /\ result.totalTax = SumSeq([k \in 1..n |-> lines[k].tax])

\* C20 witness: a taxable income just past 50,000,000, split over all six
\* brackets with the last slice ending at the income
C20_Witness ==
    /\ Personal
    /\ result.taxableIncome > 50000000 \div NairaPerUnit
    /\ Len(result.taxPerBracket) = 6
    /\ AmountUpTo(result.taxPerBracket, 5) = 50000000 \div NairaPerUnit
    /\ AmountUpTo(result.taxPerBracket, 6) = result.taxableIncome

\* C21: effectiveTaxRate of the business breakdown is totalTax / grossIncome
\* x 100 when grossIncome > 0 and 0 when grossIncome <= 0; no call divides by a
\* zero gross income.  The rate is the fraction num/den percent.
C21_EffectiveTaxRate ==
    Business =>
        /\ result.effectiveTaxRate.den # 0
        /\ grossIncome > 0 =>
               /\ result.effectiveTaxRate.num = result.totalTax
               /\ result.effectiveTaxRate.den = grossIncome
        /\ grossIncome <= 0 => result.effectiveTaxRate.num = 0
        /\ (grossIncome = 1000000 \div NairaPerUnit /\ ZeroReliefs(reliefs)
              /\ companySize = "medium" /\ businessType = "general") =>
               result.effectiveTaxRate.num = (30 + 4) * result.effectiveTaxRate.den

\* C21 witness: a gross income of zero with a taxable custom item, so that
\* tax is owed and the unguarded quotient would divide by zero
C21_Witness ==
    /\ Business
    /\ grossIncome = 0
    /\ result.totalTax > 0
    /\ result.effectiveTaxRate.num = 0

\* C21, second case: a positive gross income with a positive rate
C21_WitnessPositive ==
    /\ Business
    /\ grossIncome > 0
    /\ result.totalTax > 0
    /\ result.effectiveTaxRate.num = result.totalTax
    /\ result.effectiveTaxRate.den = grossIncome

\* the custom deduction list as the caller holds it
CallerList ==
    IF "customDeductions" \in DOMAIN reliefs THEN reliefs.customDeductions ELSE <<>>

\* C22: the engine treats the custom deduction list as immutable input: after
\* calculateBusinessTax returns, the caller's list has the same entries in the
\* same order with unchanged id, name, amount and isTaxable, and the
\* customDeductions of the breakdown holds exactly those entries, taxable and
\* deductible alike.
C22_ListImmutable ==
    [][callee = "calculateBusinessTax" =>
           /\ reliefs' = reliefs
           /\ Len(CallerList') = Len(CallerList)
           /\ \A k \in 1..Len(CallerList) :
                  /\ CallerList'[k].id = CallerList[k].id
                  /\ CallerList'[k].name = CallerList[k].name
                  /\ CallerList'[k].amount = CallerList[k].amount
                  /\ CallerList'[k].isTaxable = CallerList[k].isTaxable
           /\ result'.customDeductions = CallerList]_vars

\* C22 witness: a returned call whose list holds a taxable and a deductible
\* item, both itemized in the breakdown
C22_Witness ==
    /\ Business
    /\ Len(CallerList) = 2
    /\ CallerList[1].isTaxable /\ ~ CallerList[2].isTaxable
    /\ result.customDeductions = CallerList
    /\ result.customDeductionsTotal = CallerList[2].amount

\* C23: whenever calculateBusinessTax reports isSmallCompanyExempt, the
\* company owes nothing: companyIncomeTax, developmentLevy, minimumEffectiveTax
\* and totalTax are 0 and netIncome = grossIncome, for every businessType and
\* every relief input; a small-exempt company is never very large.
C23_SmallExemptOwesNothing ==
    (Business /\ result.isSmallCompanyExempt) =>
        /\ result.companyIncomeTax = 0
        /\ result.developmentLevy = 0
        /\ result.minimumEffectiveTax = 0
        /\ result.totalTax = 0
        /\ result.netIncome = grossIncome * 100
        /\ grossIncome < 50000 * (1000000 \div NairaPerUnit)

\* C23 witness: a small general company exactly on the turnover threshold with
\* a taxable custom item: taxable income is positive and nothing is owed
C23_Witness ==
    /\ Business /\ result.isSmallCompanyExempt
    /\ businessType = "general"
    /\ grossIncome = 50000000 \div NairaPerUnit
    /\ CustomSum(CallerList, TRUE) > 0
    /\ result.taxableIncome > 0
    /\ result.totalTax = 0

\* every numeric relief amount and every custom item amount is non-negative
NonNegativeReliefs(r) ==
    \A f \in DOMAIN r :
        IF f = "customDeductions"
        THEN \A k \in 1..Len(r[f]) : r[f][k].amount >= 0
        ELSE r[f] >= 0

\* C24 as stated: for calculateBusinessTax with non-negative gross income,
\* relief amounts and custom item amounts, totalTax never exceeds grossIncome,
\* so netIncome >= 0 and effectiveTaxRate stays within [0, 100].
C24_TaxWithinIncome ==
    (Business /\ grossIncome >= 0 /\ NonNegativeReliefs(reliefs)) =>
        /\ result.totalTax <= grossIncome * 100
        /\ result.netIncome >= 0
        /\ result.effectiveTaxRate.num >= 0
        /\ result.effectiveTaxRate.num <= 100 * result.effectiveTaxRate.den

\* C24 amended: the bound holds when the taxable custom items do not exceed
\* the total reliefs, so that taxableIncome <= grossIncome.
C24_TaxWithinIncomeNoExcess ==
    (Business /\ grossIncome >= 0 /\ NonNegativeReliefs(reliefs)
       /\ CustomSum(CallerList, TRUE) <= result.totalReliefs) =>
        /\ result.taxableIncome <= grossIncome
        /\ result.totalTax <= grossIncome * 100
        /\ result.netIncome >= 0
        /\ result.effectiveTaxRate.num >= 0
        /\ result.effectiveTaxRate.num <= 100 * result.effectiveTaxRate.den

\* C24 witness: taxable items matched by reliefs, tax owed and within income
C24_Witness ==
    /\ Business /\ grossIncome > 0 /\ NonNegativeReliefs(reliefs)
    /\ CustomSum(CallerList, TRUE) > 0
    /\ CustomSum(CallerList, TRUE) <= result.totalReliefs
    /\ result.totalTax > 0
    /\ result.totalTax <= grossIncome * 100

\* C25: for calculateTax with non-negative gross income and relief amounts,
\* 0 <= taxableIncome <= grossIncome, 0 <= totalTax <= 25% of taxableIncome and
\* 0 <= netIncome <= grossIncome; and netIncome never decreases when
\* grossIncome increases with the reliefs fixed.
C25_PersonalBounds ==
    (Personal /\ grossIncome >= 0 /\ NonNegativeReliefs(reliefs)) =>
        /\ 0 <= result.taxableIncome /\ result.taxableIncome <= grossIncome
        /\ 0 <= result.totalTax /\ result.totalTax <= 25 * result.taxableIncome
        /\ 0 <= result.netIncome /\ result.netIncome <= grossIncome * 100
        /\ \A higher \in PersonalIncomes :
               higher >= grossIncome =>
                   calculateTax(higher, reliefs).netIncome >= result.netIncome

\* C25 witness: an income taxed in the 18% bracket after reliefs, and a higher
\* income to compare with
C25_Witness ==
    /\ Personal /\ NonNegativeReliefs(reliefs) /\ ~ ZeroReliefs(reliefs)
    /\ result.taxableIncome > 3000000 \div NairaPerUnit
    /\ result.taxableIncome < grossIncome
    /\ result.totalTax > 0
    /\ \E higher \in PersonalIncomes :
           /\ higher > grossIncome
           /\ calculateTax(higher, reliefs).netIncome > result.netIncome

-----------------------------------------------------------------------------
(***************************************************************************)
(* TaxHistoryProvider, src/contexts/TaxHistoryContext.tsx (lines 103-215). *)
(* The handlers are closures of a render: they read the `data` of the      *)
(* render that created them, and setData takes effect at the next render.  *)
(* Storage requests complete in the order they were issued.  The stored    *)
(* JSON text is represented by the list it parses to: entries hold only    *)
(* strings and numbers, which JSON.stringify / JSON.parse return as given. *)
(***************************************************************************)

\* the engines at rest while a provider is observed
EngineIdle ==
    /\ callee = "none"
    /\ grossIncome = 0
    /\ reliefs = <<>>
    /\ companySize = "none"
    /\ businessType = "none"
    /\ fixedAssets = <<>>
    /\ pc = "idle"
    /\ result = NoResult

\* provider calls made in one behaviour
MaxCalls == 2

\* the last millisecond of the clock
MaxNow == 2

\* the calculations the calculator screen saves
Payloads == {"calcA", "calcB"}

\* Number.prototype.toString(): the decimal digits of a non-negative integer
RECURSIVE toString(_)
toString(n) == IF n < 10 THEN <<n>> ELSE Append(toString(n \div 10), n % 10)

\* `data || []`
ListOrEmptyList(d) == IF d = <<>> THEN <<>> ELSE d[1]

\* an entry saved before the provider was mounted
OldEntry == [payload |-> "old", _id |-> toString(0), createdAt |-> 0]

NoEntry == [payload |-> "none", _id |-> <<>>, createdAt |-> 0]

\* a storage request: AsyncStorage.getItem or AsyncStorage.setItem(value)
Request(kind, value) == [kind |-> kind, value |-> value]

\* an event of the log; `loaded` tells whether the render had a non-null data
Event(name, entry) == [event |-> name, entry |-> entry, loaded |-> data # <<>>]

CallsMade == Cardinality({k \in 1..Len(log) : log[k].event \in {"add", "update", "delete", "refresh"}})

InitHistory ==
    /\ EngineIdle
    /\ SecurityIdle
    /\ AuthIdle
    /\ data = <<>>
    /\ pendingData = <<>>
    /\ isLoading = TRUE
    /\ refreshing = FALSE
    /\ cache \in {<<>>, << <<OldEntry>> >>}
    /\ inflight = <<Request("load", <<>>)>>       \* useEffect: loadHistory()
    /\ now = 1
    /\ log = <<>>

\* loadHistory after getItem resolved: setData of the parsed item, or of []
LoadDone ==
    /\ inflight # <<>> /\ Head(inflight).kind = "load"
    /\ pendingData' = <<ListOrEmptyList(cache)>>
    /\ isLoading' = FALSE
    /\ refreshing' = FALSE
    /\ inflight' = Tail(inflight)
    /\ UNCHANGED <<data, cache, now, log, notHistoryVars>>

\* loadHistory after getItem rejected: setData([])
LoadFail ==
    /\ inflight # <<>> /\ Head(inflight).kind = "load"
    /\ pendingData' = << <<>> >>
    /\ isLoading' = FALSE
    /\ refreshing' = FALSE
    /\ inflight' = Tail(inflight)
    /\ log' = Append(log, Event("loadFailed", NoEntry))
    /\ UNCHANGED <<data, cache, now, notHistoryVars>>

\* refresh(): setRefreshing(true), then loadHistory() up to its await
Refresh ==
    /\ CallsMade < MaxCalls
    /\ refreshing' = TRUE
    /\ inflight' = Append(inflight, Request("load", <<>>))
    /\ log' = Append(log, Event("refresh", NoEntry))
    /\ UNCHANGED <<data, pendingData, isLoading, cache, now, notHistoryVars>>

\* `data || []` of addCalculation: the list of the render that made the closure
historyToExtend == ListOrEmptyList(data)

\* addCalculation(newCalc) without _id, up to its await
AddNew ==
    /\ CallsMade < MaxCalls
    /\ \E p \in Payloads :
         LET entry == [payload |-> p, _id |-> toString(now), createdAt |-> now]
             updatedHistory == <<entry>> \o historyToExtend
         IN  /\ pendingData' = <<updatedHistory>>
             /\ inflight' = Append(inflight, Request("write", updatedHistory))
             /\ log' = Append(log, Event("add", entry))
    /\ UNCHANGED <<data, isLoading, refreshing, cache, now, notHistoryVars>>

\* addCalculation(newCalc) with the _id of an entry, up to its await
AddExisting ==
    /\ CallsMade < MaxCalls
    /\ \E p \in Payloads, k \in 1..Len(ListOrEmptyList(data)) :
         LET old == ListOrEmptyList(data)
             id == old[k]._id
             updatedHistory ==
                 [j \in 1..Len(old) |->
                     IF old[j]._id = id THEN [old[j] EXCEPT !.payload = p] ELSE old[j]]
         IN  /\ pendingData' = <<updatedHistory>>
             /\ inflight' = Append(inflight, Request("write", updatedHistory))
             /\ log' = Append(log, Event("update", old[k]))
    /\ UNCHANGED <<data, isLoading, refreshing, cache, now, notHistoryVars>>

\* deleteCalculation(id) with data loaded, up to its await
Delete ==
    /\ CallsMade < MaxCalls
    /\ data # <<>>
    /\ \E k \in 1..Len(data[1]) :
         LET id == data[1][k]._id
             kept(item) == item._id # id
             updatedHistory == SelectSeq(data[1], kept)
         IN  /\ pendingData' = <<updatedHistory>>
             /\ inflight' = Append(inflight, Request("write", updatedHistory))
             /\ log' = Append(log, Event("delete", data[1][k]))
    /\ UNCHANGED <<data, isLoading, refreshing, cache, now, notHistoryVars>>

\* AsyncStorage.setItem resolved
WriteDone ==
    /\ inflight # <<>> /\ Head(inflight).kind = "write"
    /\ cache' = <<Head(inflight).value>>
    /\ inflight' = Tail(inflight)
    /\ UNCHANGED <<data, pendingData, isLoading, refreshing, now, log, notHistoryVars>>

\* AsyncStorage.setItem rejected: the error is logged, the state is kept
WriteFail ==
    /\ inflight # <<>> /\ Head(inflight).kind = "write"
    /\ inflight' = Tail(inflight)
    /\ log' = Append(log, Event("writeFailed", NoEntry))
    /\ UNCHANGED <<data, pendingData, isLoading, refreshing, cache, now, notHistoryVars>>

\* the provider re-renders: new closures see the value last set
Render ==
    /\ pendingData # data
    /\ data' = pendingData
    /\ UNCHANGED <<pendingData, isLoading, refreshing, cache, inflight, now, log, notHistoryVars>>

\* a millisecond passes
Tick ==
    /\ now < MaxNow
    /\ now' = now + 1
    /\ UNCHANGED <<data, pendingData, isLoading, refreshing, cache, inflight, log, notHistoryVars>>

NextHistory ==
    \/ LoadDone
    \/ LoadFail
    \/ Refresh
    \/ AddNew
    \/ AddExisting
    \/ Delete
    \/ WriteDone
    \/ WriteFail
    \/ Render
    \/ Tick

SpecHistory == InitHistory /\ [][NextHistory]_vars

\* no request is in flight and the last value set has been rendered
Quiescent == inflight = <<>> /\ pendingData = data /\ data # <<>>

\* the entries added by the calls of the log, oldest first
AddedEntries ==
    LET isAdd(e) == e.event = "add"
        adds == SelectSeq(log, isAdd)
    IN  [k \in 1..Len(adds) |-> adds[k].entry]

\* list `l` holds the entries of `added`, the later added the nearer the front
HoldsNewestFirst(l, added) ==
    \E pos \in [1..Len(added) -> 1..Len(l)] :
        /\ \A k \in 1..Len(added) : l[pos[k]] = added[k]
        /\ \A j, k \in 1..Len(added) : j < k => pos[j] > pos[k]

\* every call of the log was made by a render whose data was loaded, and is
\* of one of the named kinds
CallsWere(kinds) ==
    /\ log # <<>>
    /\ \A k \in 1..Len(log) : log[k].event \in kinds /\ log[k].loaded

\* C26: no saved calculation is lost: for any sequence or overlap of
\* addCalculation calls with new entries, two calls made before a re-render
\* included, once all calls have completed every added entry is in the
\* in-memory history and in the persisted cache, each under a distinct _id,
\* newest first.
C26_NoAddLost ==
    (Quiescent /\ CallsWere({"add"})) =>
        /\ Len(data[1]) >= Len(AddedEntries)
        /\ HoldsNewestFirst(data[1], AddedEntries)
        /\ HoldsNewestFirst(ListOrEmptyList(cache), AddedEntries)
        /\ \A j, k \in 1..Len(AddedEntries) :
               j # k => AddedEntries[j]._id # AddedEntries[k]._id

\* C27: the in-memory history and the persisted cache agree whenever no
\* operation is in flight: after addCalculation or deleteCalculation has
\* completed, a failed storage write included, a refresh() yields the list
\* that was in memory before it.
C27_MemoryMatchesCache ==
    (Quiescent /\ CallsWere({"add", "update", "delete", "writeFailed"})) =>
        ListOrEmptyList(cache) = data[1]

-----------------------------------------------------------------------------
(***************************************************************************)
(* SecurityProvider, src/contexts/SecurityContext.tsx.  A handler runs     *)
(* until its next await; the steps of different handlers interleave at     *)
(* the awaits.  Time is counted in ticks of MsPerTick milliseconds.  The   *)
(* operating system changes the app state only while no earlier change is  *)
(* still being handled.                                                    *)
(***************************************************************************)

MsPerTick == 30 * 1000

\* useState(60000): the lockTimeout of the first render
DefaultLockTimeout == 60000 \div MsPerTick

\* the last tick of the clock
MaxTime == 3

\* the timeouts a user may choose, in ticks
TimeoutChoices == 1..3

Passwords == {"1234", "0000"}

\* parseInt(text, 10) of the digits written by toString
RECURSIVE parseInt(_)
parseInt(digits) ==
    IF digits = <<>> THEN 0
    ELSE 10 * parseInt(SubSeq(digits, 1, Len(digits) - 1)) + digits[Len(digits)]

\* the lockTimeout read by handleAppStateChange: the listener is subscribed
\* once, by the effect of the first render, and keeps that render's value
listenerLockTimeout == DefaultLockTimeout

InitSecurity ==
    /\ EngineIdle
    /\ HistoryIdle
    /\ AuthIdle
    /\ isLocked = FALSE
    /\ hasPassword = FALSE
    /\ isBiometricEnabled = FALSE
    /\ lockTimeout = DefaultLockTimeout
    /\ \E pw \in {<<>>} \cup {<<p>> : p \in Passwords},
          to \in {<<>>} \cup {<<toString(t)>> : t \in TimeoutChoices} :
         storage = [k \in SECURE_KEYS |->
                       CASE k = "PASSWORD" -> pw
                         [] k = "LOCK_TIMEOUT" -> to
                         [] OTHER -> <<>>]
    /\ appState = "active"
    /\ osState = "active"
    \* useEffect: loadSecuritySettings() runs up to its first await
    /\ tasks = [h \in {"load", "appChange", "removeSecurity"} |->
                   IF h = "load" THEN [IdleTask EXCEPT !.pc = "readPassword"] ELSE IdleTask]

Suspended(h, at) == tasks[h].pc = at

Goto(h, at) == [tasks EXCEPT ![h].pc = at]

Finish(h) == [tasks EXCEPT ![h] = IdleTask]

\* loadSecuritySettings: SecureStore.getItemAsync(PASSWORD) resolved
LoadReadPassword ==
    /\ Suspended("load", "readPassword")
    /\ tasks' = [tasks EXCEPT !["load"] = [pc |-> "readSettings", arg |-> "none",
                                           local |-> storage["PASSWORD"]]]
    /\ UNCHANGED <<isLocked, hasPassword, isBiometricEnabled, lockTimeout, storage,
                   appState, osState, now, notSecurityVars>>

\* loadSecuritySettings: the two other items read, then the four state updates
LoadApplySettings ==
    /\ Suspended("load", "readSettings")
    /\ hasPassword' = (tasks["load"].local # <<>>)
    /\ isBiometricEnabled' = (storage["BIOMETRIC_ENABLED"] = <<"true">>)
    /\ lockTimeout' = IF storage["LOCK_TIMEOUT"] # <<>>
                      THEN parseInt(storage["LOCK_TIMEOUT"][1])
                      ELSE DefaultLockTimeout
    /\ isLocked' = IF tasks["load"].local # <<>> THEN TRUE ELSE isLocked
    /\ tasks' = Finish("load")
    /\ UNCHANGED <<storage, appState, osState, now, notSecurityVars>>

\* the operating system changes the app state and handleAppStateChange runs
\* up to its first await, or to its end when neither branch applies
AppStateChanges ==
    /\ Suspended("appChange", "idle")
    /\ \E nextAppState \in {"active", "background"} \ {osState} :
         /\ osState' = nextAppState
         /\ IF appState = "active" /\ nextAppState = "background"
            THEN /\ tasks' = [tasks EXCEPT !["appChange"] =
                                 [pc |-> "backgroundRead", arg |-> nextAppState, local |-> <<>>]]
                 /\ UNCHANGED appState
            ELSE IF appState = "background" /\ nextAppState = "active"
            THEN /\ tasks' = [tasks EXCEPT !["appChange"] =
                                 [pc |-> "foregroundRead", arg |-> nextAppState, local |-> <<>>]]
                 /\ UNCHANGED appState
            ELSE /\ appState' = nextAppState
                 /\ UNCHANGED tasks
    /\ UNCHANGED <<isLocked, hasPassword, isBiometricEnabled, lockTimeout, storage,
                   now, notSecurityVars>>

\* to background: the password read
BackgroundRead ==
    /\ Suspended("appChange", "backgroundRead")
    /\ tasks' = [tasks EXCEPT !["appChange"].pc = "backgroundWrite",
                              !["appChange"].local = storage["PASSWORD"]]
    /\ UNCHANGED <<isLocked, hasPassword, isBiometricEnabled, lockTimeout, storage,
                   appState, osState, now, notSecurityVars>>

\* to background: the timestamp stored when a password was read
BackgroundWrite ==
    /\ Suspended("appChange", "backgroundWrite")
    /\ storage' = IF tasks["appChange"].local # <<>>
                  THEN [storage EXCEPT !["BACKGROUND_TIMESTAMP"] = <<toString(now)>>]
                  ELSE storage
    /\ appState' = tasks["appChange"].arg
    /\ tasks' = Finish("appChange")
    /\ UNCHANGED <<isLocked, hasPassword, isBiometricEnabled, lockTimeout,
                   osState, now, notSecurityVars>>

\* to foreground: the password read
ForegroundRead ==
    /\ Suspended("appChange", "foregroundRead")
    /\ tasks' = [tasks EXCEPT !["appChange"].pc = "foregroundCheck",
                              !["appChange"].local = storage["PASSWORD"]]
    /\ UNCHANGED <<isLocked, hasPassword, isBiometricEnabled, lockTimeout, storage,
                   appState, osState, now, notSecurityVars>>

\* the time elapsed since the stored background timestamp
elapsedTime == now - parseInt(storage["BACKGROUND_TIMESTAMP"][1])

\* to foreground: the timestamp read and the elapsed time compared
ForegroundCheck ==
    /\ Suspended("appChange", "foregroundCheck")
    /\ IF tasks["appChange"].local # <<>> /\ storage["BACKGROUND_TIMESTAMP"] # <<>>
       THEN /\ isLocked' = IF elapsedTime >= listenerLockTimeout THEN TRUE ELSE isLocked
            /\ tasks' = Goto("appChange", "foregroundClear")
            /\ UNCHANGED appState
       ELSE /\ appState' = tasks["appChange"].arg
            /\ tasks' = Finish("appChange")
            /\ UNCHANGED isLocked
    /\ UNCHANGED <<hasPassword, isBiometricEnabled, lockTimeout, storage,
                   osState, now, notSecurityVars>>

\* to foreground: the timestamp removed
ForegroundClear ==
    /\ Suspended("appChange", "foregroundClear")
    /\ storage' = [storage EXCEPT !["BACKGROUND_TIMESTAMP"] = <<>>]
    /\ appState' = tasks["appChange"].arg
    /\ tasks' = Finish("appChange")
    /\ UNCHANGED <<isLocked, hasPassword, isBiometricEnabled, lockTimeout,
                   osState, now, notSecurityVars>>

\* unlock(password): the stored password read and compared
UnlockWith(password) ==
    /\ isLocked' = IF storage["PASSWORD"] = <<password>> THEN FALSE ELSE isLocked
    /\ UNCHANGED <<hasPassword, isBiometricEnabled, lockTimeout, storage, appState,
                   osState, tasks, now, notSecurityVars>>

Unlock == \E password \in Passwords : UnlockWith(password)

\* authenticateWithBiometrics() on a device with enrolled biometrics, the
\* prompt succeeding
AuthenticateWithBiometrics ==
    /\ isBiometricEnabled
    /\ isLocked' = FALSE
    /\ UNCHANGED <<hasPassword, isBiometricEnabled, lockTimeout, storage, appState,
                   osState, tasks, now, notSecurityVars>>

\* setPassword(password): the item stored, then the two state updates
SetPassword ==
    /\ \E password \in Passwords :
         storage' = [storage EXCEPT !["PASSWORD"] = <<password>>]
    /\ hasPassword' = TRUE
    /\ isLocked' = FALSE
    /\ UNCHANGED <<isBiometricEnabled, lockTimeout, appState, osState, tasks, now,
                   notSecurityVars>>

\* setBiometricEnabled(enabled)
SetBiometricEnabled ==
    /\ \E enabled \in BOOLEAN :
         /\ storage' = [storage EXCEPT !["BIOMETRIC_ENABLED"] =
                           <<IF enabled THEN "true" ELSE "false">>]
         /\ isBiometricEnabled' = enabled
    /\ UNCHANGED <<isLocked, hasPassword, lockTimeout, appState, osState, tasks, now,
                   notSecurityVars>>

\* setLockTimeout(timeout)
SetLockTimeout ==
    /\ \E timeout \in TimeoutChoices :
         /\ storage' = [storage EXCEPT !["LOCK_TIMEOUT"] = <<toString(timeout)>>]
         /\ lockTimeout' = timeout
    /\ UNCHANGED <<isLocked, hasPassword, isBiometricEnabled, appState, osState, tasks,
                   now, notSecurityVars>>

\* removeSecurity(): called, its first delete requested
RemoveSecurityCalled ==
    /\ Suspended("removeSecurity", "idle")
    /\ tasks' = Goto("removeSecurity", "deletePassword")
    /\ UNCHANGED <<isLocked, hasPassword, isBiometricEnabled, lockTimeout, storage,
                   appState, osState, now, notSecurityVars>>

\* removeSecurity(): one of its three first items deleted
RemoveSecurityDelete ==
    /\ \E step \in {<<"deletePassword", "PASSWORD", "deleteBiometric">>,
                    <<"deleteBiometric", "BIOMETRIC_ENABLED", "removeTimeout">>,
                    <<"removeTimeout", "LOCK_TIMEOUT", "removeTimestamp">>} :
         /\ Suspended("removeSecurity", step[1])
         /\ storage' = [storage EXCEPT ![step[2]] = <<>>]
         /\ tasks' = Goto("removeSecurity", step[3])
    /\ UNCHANGED <<isLocked, hasPassword, isBiometricEnabled, lockTimeout,
                   appState, osState, now, notSecurityVars>>

\* removeSecurity(): the timestamp removed, then the three state updates
RemoveSecurityFinish ==
    /\ Suspended("removeSecurity", "removeTimestamp")
    /\ storage' = [storage EXCEPT !["BACKGROUND_TIMESTAMP"] = <<>>]
    /\ hasPassword' = FALSE
    /\ isLocked' = FALSE
    /\ isBiometricEnabled' = FALSE
    /\ tasks' = Finish("removeSecurity")
    /\ UNCHANGED <<lockTimeout, appState, osState, now, notSecurityVars>>

\* a tick of the clock passes
TimePasses ==
    /\ now < MaxTime
    /\ now' = now + 1
    /\ UNCHANGED <<securityVars, notSecurityVars>>

NextSecurity ==
    \/ LoadReadPassword
    \/ LoadApplySettings
    \/ AppStateChanges
    \/ BackgroundRead
    \/ BackgroundWrite
    \/ ForegroundRead
    \/ ForegroundCheck
    \/ ForegroundClear
    \/ Unlock
    \/ AuthenticateWithBiometrics
    \/ SetPassword
    \/ SetBiometricEnabled
    \/ SetLockTimeout
    \/ RemoveSecurityCalled
    \/ RemoveSecurityDelete
    \/ RemoveSecurityFinish
    \/ TimePasses

SpecSecurity == InitSecurity /\ [][NextSecurity]_vars

\* C28: the app is locked only while a local password is stored: in every
\* reachable state, under any interleaving of loadSecuritySettings, app state
\* changes, setPassword, unlock and removeSecurity, isLocked implies that a
\* password exists in secure storage.
\* It is stated for the states in which no handler is suspended at an await.
C28_LockedOnlyWithPassword ==
    (isLocked /\ \A h \in DOMAIN tasks : tasks[h].pc = "idle") =>
        storage["PASSWORD"] # <<>>

\* unlock with a password different from the stored one leaves isLocked as it was
UnlockWrongPasswordKeepsLock ==
    [][\A password \in Passwords :
           (UnlockWith(password) /\ storage["PASSWORD"] # <<password>>) =>
               isLocked' = isLocked]_vars

\* C29: when a password is set and the app returns to the foreground,
\* isLocked becomes true if the time spent in background is at least the
\* lockTimeout currently configured (last loaded or last set), and the return
\* does not lock the app if the time spent is less than that lockTimeout.
C29_AutoLockOnConfiguredTimeout ==
    [][(ForegroundCheck /\ tasks["appChange"].local # <<>>
          /\ storage["PASSWORD"] # <<>> /\ storage["BACKGROUND_TIMESTAMP"] # <<>>
          /\ tasks["load"].pc = "idle") =>
           /\ elapsedTime >= lockTimeout => isLocked'
           /\ elapsedTime < lockTimeout => isLocked' = isLocked]_vars

(***************************************************************************)
(* AuthProvider (src/contexts/AuthContext.tsx) with the backend mutations  *)
(* it calls (src/convex/users.ts).  Each handler runs to its end before    *)
(* the next one is called.  A failure of the secure storage is modelled    *)
(* for logout, which swallows it: the handler stops at the failing call.   *)
(***************************************************************************)
Emails == {"ada@example.ng", "bola@example.ng"}

PasswordChoices == {"secret1", "secret2"}

DisplayName == "Taxpayer"

\* "hashed_" + args.password
hashOf(password) == <<"hashed_", password>>

\* the _id of the row inserted for an email
userIdOf(email) == <<"users", email>>

emailOfId(userId) == userId[2]

\* Boolean.prototype.toString
boolToString(b) == IF b THEN "true" ELSE "false"

\* the row register() inserts
newRow(password) ==
    [passwordHash |-> hashOf(password), name |-> DisplayName, biometricEnabled |-> FALSE]

\* the mutation api.users.login returns a user rather than throwing
loginAccepts(table, email, password) ==
    /\ email \in DOMAIN table
    /\ table[email].passwordHash = hashOf(password)

\* what api.users.login returns
loginResult(table, email) ==
    [userId |-> userIdOf(email), email |-> email, name |-> table[email].name,
     biometricEnabled |-> table[email].biometricEnabled]

\* login(): the five items stored for the result of the mutation
storedAfterLogin(res, password) ==
    [secureStore EXCEPT !["USER_ID"] = <<res.userId>>,
                        !["EMAIL"] = <<res.email>>,
                        !["USER_NAME"] = <<res.name>>,
                        !["PASSWORD"] = <<password>>,
                        !["BIOMETRIC_ENABLED"] = <<boolToString(res.biometricEnabled)>>]

\* the User that setUser(result) stores: the result carries no imageUrl
userOf(res) ==
    [userId |-> res.userId, email |-> res.email, name |-> res.name,
     biometricEnabled |-> res.biometricEnabled, imageUrl |-> <<>>]

\* the record of the handler called now
Called(op, ok) ==
    [op |-> op, ok |-> ok, previous |-> [op |-> lastCall.op, ok |-> lastCall.ok]]

\* a handler that throws before it changed anything
Throws(op) ==
    /\ lastCall' = Called(op, FALSE)
    /\ UNCHANGED <<user, authIsLoading, isBiometricAvailable, secureStore, users,
                   lastLogout, notAuthVars>>

\* login(email, password) against the table `table`, called by handler `op`
LoginEffect(table, email, password, op) ==
    /\ secureStore' = storedAfterLogin(loginResult(table, email), password)
    /\ user' = <<userOf(loginResult(table, email))>>
    /\ lastCall' = Called(op, TRUE)
    /\ lastLogout' = <<>>

\* the items a device holds from earlier runs of the app: none, the session
\* of a logged-in user, or the credentials kept by a logout with biometrics
StoredByEarlierRuns(table, email, password) ==
    LET session == [k \in STORAGE_KEYS |->
                       CASE k = "USER_ID" -> <<userIdOf(email)>>
                         [] k = "EMAIL" -> <<email>>
                         [] k = "USER_NAME" -> <<table[email].name>>
                         [] k = "PASSWORD" -> <<password>>
                         [] k = "BIOMETRIC_ENABLED" ->
                                <<boolToString(table[email].biometricEnabled)>>
                         [] OTHER -> <<>>]
    IN  {[k \in STORAGE_KEYS |-> <<>>], session}
          \cup IF table[email].biometricEnabled
               THEN {[session EXCEPT !["USER_ID"] = <<>>]}
               ELSE {}

InitAuth ==
    /\ EngineIdle
    /\ HistoryIdle
    /\ SecurityIdle
    /\ user = <<>>
    /\ authIsLoading = TRUE
    /\ isBiometricAvailable = FALSE
    /\ \E enabled \in BOOLEAN :
         users = [e \in {"ada@example.ng"} |->
                     [newRow("secret1") EXCEPT !.biometricEnabled = enabled]]
    /\ secureStore \in StoredByEarlierRuns(users, "ada@example.ng", "secret1")
    /\ lastCall = NoCall
    /\ lastLogout = <<>>

\* the mount effect: checkBiometricAvailability() and loadStoredUser()
MountEffect ==
    /\ authIsLoading
    /\ isBiometricAvailable' \in BOOLEAN
    /\ user' = IF secureStore["USER_ID"] # <<>> /\ secureStore["EMAIL"] # <<>>
               THEN <<[userId |-> secureStore["USER_ID"][1],
                       email |-> secureStore["EMAIL"][1],
                       name |-> IF secureStore["USER_NAME"] # <<>>
                                THEN secureStore["USER_NAME"][1] ELSE "",
                       biometricEnabled |-> secureStore["BIOMETRIC_ENABLED"] = <<"true">>,
                       imageUrl |-> secureStore["IMAGE_URL"]]>>
               ELSE user
    /\ authIsLoading' = FALSE
    /\ lastCall' = Called("loadStoredUser", TRUE)
    /\ UNCHANGED <<secureStore, users, lastLogout, notAuthVars>>

\* login(email, password)
Login ==
    /\ ~authIsLoading
    /\ \E email \in Emails, password \in PasswordChoices :
         IF loginAccepts(users, email, password)
         THEN /\ LoginEffect(users, email, password, "login")
              /\ UNCHANGED <<authIsLoading, isBiometricAvailable, users, notAuthVars>>
         ELSE Throws("login")

\* register(email, password, name): the row inserted, then login()
Register ==
    /\ ~authIsLoading
    /\ \E email \in Emails, password \in PasswordChoices :
         IF email \in DOMAIN users
         THEN Throws("register")
         ELSE LET inserted == [e \in DOMAIN users \cup {email} |->
                                 IF e = email THEN newRow(password) ELSE users[e]]
              IN  /\ users' = inserted
                  /\ LoginEffect(inserted, email, password, "register")
                  /\ UNCHANGED <<authIsLoading, isBiometricAvailable, notAuthVars>>

\* logout(): the items it deletes one after the other, given the biometric
\* flag it reads after the first deletion
logoutSteps_KeepsCredentials(flag) == <<"USER_ID">>

logoutSteps(flag) ==
    <<"USER_ID">> \o
       IF flag # <<"true">>
       THEN <<"EMAIL", "PASSWORD", "USER_NAME", "BIOMETRIC_ENABLED", "IMAGE_URL">>
       ELSE <<>>

\* the store after the first n deletions of steps
deleted(steps, n) ==
    [k \in STORAGE_KEYS |->
        IF \E i \in 1..n : steps[i] = k THEN <<>> ELSE secureStore[k]]

\* logout() with every storage call succeeding
Logout ==
    /\ ~authIsLoading
    /\ LET steps == logoutSteps(secureStore["BIOMETRIC_ENABLED"])
       IN  secureStore' = deleted(steps, Len(steps))
    /\ user' = <<>>
    /\ lastCall' = Called("logout", TRUE)
    /\ lastLogout' = <<secureStore["BIOMETRIC_ENABLED"]>>
    /\ UNCHANGED <<authIsLoading, isBiometricAvailable, users, notAuthVars>>

\* logout() with a storage call that rejects after n deletions: the error
\* is logged and the user stays
LogoutStorageError ==
    /\ ~authIsLoading
    /\ LET steps == logoutSteps(secureStore["BIOMETRIC_ENABLED"])
       IN  \E n \in (0..(Len(steps) - 1)) \cup {1} :
              secureStore' = deleted(steps, n)
    /\ lastCall' = Called("logout", FALSE)
    /\ UNCHANGED <<user, authIsLoading, isBiometricAvailable, users, lastLogout,
                   notAuthVars>>

\* loginWithBiometrics(): the prompt, the stored credentials, then login()
LoginWithBiometrics ==
    /\ ~authIsLoading
    /\ \E success \in BOOLEAN :
         LET email == secureStore["EMAIL"]
             password == secureStore["PASSWORD"]
         IN  IF /\ isBiometricAvailable
                /\ success
                /\ email # <<>>
                /\ password # <<>>
                /\ loginAccepts(users, email[1], password[1])
             THEN /\ LoginEffect(users, email[1], password[1], "loginWithBiometrics")
                  /\ UNCHANGED <<authIsLoading, isBiometricAvailable, users, notAuthVars>>
             ELSE Throws("loginWithBiometrics")

\* enableBiometrics() / disableBiometrics(): the backend row patched, the
\* flag stored, the user updated
biometricSettingStored(enabled) ==
    /\ users' = [users EXCEPT ![emailOfId(user[1].userId)].biometricEnabled = enabled]
    /\ secureStore' = [secureStore EXCEPT !["BIOMETRIC_ENABLED"] = <<boolToString(enabled)>>]
    /\ user' = <<[user[1] EXCEPT !.biometricEnabled = enabled]>>
    /\ UNCHANGED <<authIsLoading, isBiometricAvailable, lastLogout, notAuthVars>>

EnableBiometrics ==
    /\ ~authIsLoading
    /\ \E success \in BOOLEAN :
         IF ~isBiometricAvailable \/ user = <<>>
         THEN Throws("enableBiometrics")
         ELSE /\ lastCall' = Called("enableBiometrics", TRUE)
              /\ IF success
                 THEN biometricSettingStored(TRUE)
                 ELSE UNCHANGED <<user, authIsLoading, isBiometricAvailable, secureStore,
                                  users, lastLogout, notAuthVars>>

DisableBiometrics ==
    /\ ~authIsLoading
    /\ IF user = <<>>
       THEN Throws("disableBiometrics")
       ELSE /\ lastCall' = Called("disableBiometrics", TRUE)
            /\ biometricSettingStored(FALSE)

\* the updates the profile editor passes to updateLocalUser
Updates ==
    {[email |-> e] : e \in Emails} \cup {[imageUrl |-> <<"photo.jpg">>], [imageUrl |-> <<>>]}

\* { ...user, ...updates }
spread(u, updates) ==
    [f \in DOMAIN u |-> IF f \in DOMAIN updates THEN updates[f] ELSE u[f]]

\* updateLocalUser(updates)
UpdateLocalUser ==
    /\ ~authIsLoading
    /\ user # <<>>
    /\ \E updates \in Updates :
         /\ secureStore' =
               [k \in STORAGE_KEYS |->
                   CASE k = "EMAIL" /\ "email" \in DOMAIN updates -> <<updates.email>>
                     [] k = "IMAGE_URL" /\ "imageUrl" \in DOMAIN updates -> updates.imageUrl
                     [] OTHER -> secureStore[k]]
         /\ user' = <<spread(user[1], updates)>>
    /\ lastCall' = Called("updateLocalUser", TRUE)
    /\ UNCHANGED <<authIsLoading, isBiometricAvailable, users, lastLogout, notAuthVars>>

NextAuth ==
    \/ MountEffect
    \/ Login
    \/ Register
    \/ Logout
    \/ LogoutStorageError
    \/ LoginWithBiometrics
    \/ EnableBiometrics
    \/ DisableBiometrics
    \/ UpdateLocalUser

SpecAuth == InitAuth /\ [][NextAuth]_vars

\* C30: after logout completes without a storage error, user is null and the
\* stored user id is removed in every case; the stored email and password
\* are removed if the stored biometric flag is not 'true' and are kept if it
\* is 'true'; and loginWithBiometrics succeeds after a logout only when the
\* flag was 'true' before that logout.
C30_LogoutKeepsCredentialsOnlyForBiometrics ==
    [][/\ Logout =>
            /\ user' = <<>>
            /\ secureStore'["USER_ID"] = <<>>
            /\ IF secureStore["BIOMETRIC_ENABLED"] = <<"true">>
               THEN /\ secureStore'["EMAIL"] = secureStore["EMAIL"]
                    /\ secureStore'["PASSWORD"] = secureStore["PASSWORD"]
               ELSE /\ secureStore'["EMAIL"] = <<>>
                    /\ secureStore'["PASSWORD"] = <<>>
       /\ (LoginWithBiometrics /\ lastCall'.ok /\ lastLogout # <<>>) =>
            lastLogout = << <<"true">> >>]_vars

\* a biometric login has succeeded right after a completed logout
C30_Witness ==
    /\ lastCall.op = "loginWithBiometrics"
    /\ lastCall.ok
    /\ lastCall.previous = [op |-> "logout", ok |-> TRUE]
    /\ user # <<>>

\* a completed logout has removed the credentials of a user without biometrics
C30_WitnessCleared ==
    /\ lastCall.op = "logout"
    /\ lastCall.ok
    /\ lastCall.previous.op \in {"login", "disableBiometrics"}
    /\ secureStore = [k \in STORAGE_KEYS |-> <<>>]

=============================================================================
